---------------------------- MODULE Spec2Model ----------------------------
(***************************************************************************)
(* Compressed-array decompression (cfdm/data/gatheredarray.py,             *)
(* cfdm/data/raggedindexedarray.py) and the compression bookkeeping of the *)
(* netCDF reader (cfdm/read/netcdf.py); the fill value of a Variable       *)
(* (cfdm/core/variable.py) and the copy of an Array                        *)
(* (cfdm/structure/data/abstract/array.py).                                *)
(*                                                                         *)
(* Conventions.  Python lists and arrays are TLA+ sequences: the element   *)
(* at 0-based position p is s[p + 1].  Coordinates into the uncompressed   *)
(* array are kept 0-based, as tuples <<i_1, .., i_k>>.  Compressed values  *)
(* are positive integers; MASKED is the value of a masked element.         *)
(*                                                                         *)
(* GatheredArray.__getitem__ uses names it never binds (array, shape, mul, *)
(* izip, index, profile_indices).  The model reads them as the attribute   *)
(* or descriptor entry of that name: self.array, self.shape, operator.mul, *)
(* itertools.izip, uncompression['instances'],                             *)
(* uncompression['profile_indices'].  Likewise the reader's _aaa0 .. _aaa3 *)
(* pass the descriptor under keywords GatheredArray.__init__ does not      *)
(* take, and record the sample axis as 'sample_axis' where __getitem__     *)
(* reads 'axis': the model hands the descriptor over as self._compression  *)
(* and reads both keys as one.                                             *)
(***************************************************************************)
EXTENDS Integers, Sequences, FiniteSets, TLC

(***************************************************************************)
(* Bounds of the model.                                                    *)
(***************************************************************************)
\* gathered: number of axes (each of size 1) before the sample axis
LeadAxes == 1
\* gathered: number of collapsed axes
MaxAxes == 3
\* gathered: largest product of the collapsed axis sizes
MaxSize == 4
\* gathered: length of the list variable
MaxSamples == 2
\* ragged: number of instances (size of the instance dimension)
MaxInstances == 3
\* ragged contiguous: elements of one instance
MaxCount == 3
\* ragged indexed: size of the sample dimension
MaxElems == 3
\* ragged indexed contiguous: number of profiles
MaxProfiles == 2
\* ragged indexed contiguous: elements of one profile
MaxProfileCount == 2
\* reader: characters of a compress attribute
MaxAttrLen == 3
\* reader: read sessions on one reader
MaxReads == 2
\* variable: the property values are 1 .. MaxValue
MaxValue == 2
\* array: length of a mutable attribute value (a list)
MaxList == 2
\* array: changes made through the copy
MaxChanges == 2

VARIABLES
    cls,          \* class of the compressed array object
    array,        \* self.array / self.compressed_array: the on-disk values
    shape,        \* self._shape
    size,         \* self._size
    ndim,         \* self._ndim
    compression,  \* self._compression: the (type, parameters) item
    ondisk,       \* content of the index variable the descriptor was made from
    returned      \* per index expression: what x[indices] returned, or the
                  \* error it raised, the last time it was evaluated

arrvars == <<cls, array, shape, size, ndim, compression, ondisk, returned>>

VARIABLES
    file,                 \* the dataset on disk: dimensions and variables
    nc,                   \* g['nc']: state of the handle on the dataset
    pc,                   \* where read() stands
    todo,                 \* variables the running loop has yet to visit
    g_compression,        \* g['compression']: dimension -> descriptor
    do_not_create_field,  \* g['do_not_create_field']
    references,           \* g['references']: variable -> count
    fields,               \* the fields created: variable -> field
    new_dimensions,       \* g['new_dimensions']: made-up dimension -> size
    read_report,          \* g['read_report']: variable -> diagnostics
    read_sample_dimension,    \* read's local sample_dimension; {} is None
    read_instance_dimension,  \* read's local instance_dimension; {} is None
    fields_in_file,       \* what read() returned
    raised,               \* the exception read() ended with, or "none"
    reads,                \* read sessions started
    uncompress,           \* g['uncompress']: the uncompress argument of read()
    scan_data,            \* the data _create_data returned for each list,
                          \* count and index variable the scan has parsed
    _read_vars,           \* self._read_vars: the template of the read variables
    aliased               \* the maps of self.read_vars are the very objects
                          \* the template holds

readvars == <<file, nc, pc, todo, g_compression, do_not_create_field,
              references, fields, new_dimensions, read_report,
              read_sample_dimension, read_instance_dimension, fields_in_file, raised,
              reads, uncompress, scan_data, _read_vars, aliased>>

VARIABLES
    properties,   \* Variable: self._private['properties']
    _fill_value,  \* Variable: self._fill_value; {} is None
    fillval,      \* Variable: the last call of fill_value() since the last
                  \* change, with what it returned
    exception,    \* Variable: what the last operation raised, or "none"
    heap,         \* Array: the mutable objects (lists), by identity
    self_dict,    \* Array: a.__dict__, attribute -> value or identity
    new_dict,     \* Array: b.__dict__ of b = a.copy()
    copied,       \* Array: a.copy() has been called
    changes       \* Array: changes made through b

objvars == <<properties, _fill_value, fillval, exception,
             heap, self_dict, new_dict, copied, changes>>

vars == <<arrvars, readvars, objvars>>

----------------------------------------------------------------------------
(***************************************************************************)
(* Helpers: folds over sequences.                                          *)
(***************************************************************************)
RECURSIVE reduce_mul(_, _)
\* reduce(operator.mul, s, initial)
reduce_mul(s, initial) ==
    IF s = <<>> THEN initial ELSE reduce_mul(Tail(s), initial * Head(s))

RECURSIVE sum(_)
\* numpy sum of a 1-d array
sum(s) == IF s = <<>> THEN 0 ELSE Head(s) + sum(Tail(s))

RECURSIVE max(_)
\* numpy max of a non-empty 1-d array
max(s) ==
    IF Len(s) = 1 THEN s[1]
    ELSE LET m == max(Tail(s)) IN IF s[1] >= m THEN s[1] ELSE m

\* numpy.ma.masked: the value of an element nothing was written to
MASKED == -1

\* all multi-indices of an array of the given shape
RECURSIVE Coords(_)
Coords(sh) ==
    IF sh = <<>> THEN {<<>>}
    ELSE {<<i>> \o t : i \in 0..(sh[1] - 1), t \in Coords(Tail(sh))}

\* numpy.ma.masked_all(shape)
masked_all(sh) == [t \in Coords(sh) |-> MASKED]

\* mutant of where: the positions come in descending order
RECURSIVE where_descending(_, _)
where_descending(a, i) ==
    IF a = <<>> THEN <<>>
    ELSE LET n == Len(a)
             front == where_descending(SubSeq(a, 1, n - 1), i)
         IN IF a[n] = i THEN <<n - 1>> \o front ELSE front

\* numpy.where(a == i)[0]: the 0-based positions holding i, ascending
RECURSIVE where(_, _)
where(a, i) ==
    IF a = <<>> THEN <<>>
    ELSE LET n == Len(a)
             front == where(SubSeq(a, 1, n - 1), i)
         IN IF a[n] = i THEN Append(front, n - 1) ELSE front

\* numpy.unique(a): the distinct values, ascending
unique(a) ==
    LET vals == {a[p] : p \in DOMAIN a}
        RECURSIVE sorted(_)
        sorted(S) == IF S = {} THEN <<>>
                     ELSE LET m == CHOOSE x \in S : \A y \in S : x <= y
                          IN <<m>> \o sorted(S \ {m})
    IN sorted(vals)

\* numpy.unique(a, return_inverse=True)[1]: for each position, the 0-based
\* rank of its value among the distinct values
unique_inverse(a) ==
    LET u == unique(a)
    IN [p \in DOMAIN a |-> (CHOOSE r \in DOMAIN u : u[r] = a[p]) - 1]

\* numpy.unique(a, return_counts=True)[1]: occurrences of each distinct value
unique_counts(a) ==
    LET u == unique(a)
    IN [r \in DOMAIN u |-> Cardinality({p \in DOMAIN a : a[p] = u[r]})]

----------------------------------------------------------------------------
(***************************************************************************)
(* Results of __getitem__.  err is "none" when the call returned, else the *)
(* exception it raised (data is then empty: nothing is returned).  placed  *)
(* lists, per source record in processing order, the multi-index the loop  *)
(* computed for it.                                                        *)
(***************************************************************************)
NoCall == [err |-> "nocall", data |-> <<>>, placed |-> <<>>]

Raised(e) == [err |-> e, data |-> <<>>, placed |-> <<>>]

\* numpy's check of one integer index x against an axis of size s
InBounds(x, s) == x >= -s /\ x < s

\* numpy's reading of an integer index: a negative one counts from the end
Wrap(x, s) == IF x < 0 THEN x + s ELSE x

\* uarray[u_indices] = value, where u_indices holds xxx[m] at axis caxes[m]
\* and slice(None) at every other axis; numpy raises IndexError when an
\* integer index is out of bounds for its axis.  The other axes have size 1,
\* so the slab copied is the one value.
SetItem(acc, sh, caxes, xxx, value) ==
    IF acc.err # "none" THEN acc
    ELSE IF \E m \in DOMAIN caxes : ~InBounds(xxx[m], sh[caxes[m] + 1])
         THEN Raised("IndexError")
         ELSE [acc EXCEPT
                 !.data = [t \in DOMAIN acc.data |->
                              IF \A m \in DOMAIN caxes :
                                    t[caxes[m] + 1] = Wrap(xxx[m], sh[caxes[m] + 1])
                              THEN value
                              ELSE acc.data[t]],
                 !.placed = Append(acc.placed, xxx)]

(***************************************************************************)
(* GatheredArray.__getitem__, compression_type == 'gathered'.              *)
(* The compressed array has LeadAxes axes of size 1 before its sample      *)
(* axis, as a variable with dimensions (time, sample) has: u_indices then  *)
(* holds a slice and numpy reads the list as a multi-index.                *)
(***************************************************************************)
\* range(sample_axis, self.ndim - (array.ndim - sample_axis - 1))
compressed_axes(sample_axis, undim, andim) ==
    [t \in 1..(undim - (andim - sample_axis - 1) - sample_axis) |->
        sample_axis + t - 1]

\* zzz: for i in range(1, n_compressed_axes), the product of the sizes of
\* compressed_axes[i:]
zzz(sh, caxes) ==
    [i \in 1..(Len(caxes) - 1) |->
        reduce_mul([t \in 1..(Len(caxes) - i) |-> sh[caxes[i + t] + 1]], 1)]

\* mutant of divmod_loop: the remainder is not carried to the next step
RECURSIVE divmod_loop_nocarry(_, _, _, _)
divmod_loop_nocarry(z, i, b, xxx) ==
    IF i > Len(z) THEN xxx
    ELSE LET hit == b >= z[i]
             a   == b \div z[i]
             x1  == IF hit THEN [xxx EXCEPT ![i] = a] ELSE xxx
             x2  == [x1 EXCEPT ![Len(x1)] = b]
         IN divmod_loop_nocarry(z, i + 1, b, x2)

\* the loop "for i, z in enumerate(zzz)" from position i on, with b and xxx
\* as they stand; returns xxx
RECURSIVE divmod_loop(_, _, _, _)
divmod_loop(z, i, b, xxx) ==
    IF i > Len(z) THEN xxx
    ELSE LET hit == b >= z[i]
             a   == b \div z[i]
             b2  == IF hit THEN b % z[i] ELSE b
             x1  == IF hit THEN [xxx EXCEPT ![i] = a] ELSE xxx
             x2  == [x1 EXCEPT ![Len(x1)] = b2]
         IN divmod_loop(z, i + 1, b2, x2)

\* xxx for the stored index b: zeros[:] run through the loop
xxx_of(sh, caxes, b) ==
    LET zeros == [j \in 1..Len(caxes) |-> 0]
    IN divmod_loop(zzz(sh, caxes), 1, b, zeros)

\* the loop "for ii, b in enumerate(uncompression_indices)" from ii on
RECURSIVE gathered_loop(_, _, _, _, _, _)
gathered_loop(ii, acc, sh, caxes, indices, arr) ==
    IF ii > Len(indices) \/ acc.err # "none" THEN acc
    ELSE gathered_loop(ii + 1,
                       SetItem(acc, sh, caxes, xxx_of(sh, caxes, indices[ii]),
                               arr[ii]),
                       sh, caxes, indices, arr)

uncompress_gathered(sh, c, arr) ==
    gathered_loop(1, [err |-> "none", data |-> masked_all(sh), placed |-> <<>>],
                  sh, compressed_axes(c.axis, Len(sh), c.array_ndim),
                  c.indices, arr)

(***************************************************************************)
(* Slice assignment into a two-dimensional uarray, as numpy does it:       *)
(*   uarray[rows, 0:ncols] = values                                        *)
(* rows is the set of row numbers the first index selects, slices are      *)
(* clipped to the array, and a right-hand side of length 1 is broadcast;   *)
(* any other length mismatch raises ValueError.                            *)
(***************************************************************************)
SetRowSlice(acc, sh, rows, ncols, values) ==
    IF acc.err # "none" THEN acc
    ELSE LET c == IF ncols < sh[2] THEN ncols ELSE sh[2]
             m == Len(values)
         IN IF m # c /\ m # 1 THEN Raised("ValueError")
            ELSE [acc EXCEPT !.data =
                     [t \in DOMAIN acc.data |->
                         IF t[1] \in rows /\ t[2] < c
                         THEN values[IF m = 1 THEN 1 ELSE t[2] + 1]
                         ELSE acc.data[t]]]

\* array[start:stop] for a one-dimensional array (the slice is clipped)
GetSlice(arr, start, stop) ==
    SubSeq(arr, start + 1, IF stop < Len(arr) THEN stop ELSE Len(arr))

\* array[positions] for a list of 0-based positions
Take(arr, positions) == [e \in DOMAIN positions |-> arr[positions[e] + 1]]

(***************************************************************************)
(* GatheredArray.__getitem__, compression_type == 'DSG_contiguous'.        *)
(***************************************************************************)
\* mutant of contiguous_loop: start is not advanced past the instance
RECURSIVE contiguous_loop_nostart(_, _, _, _, _, _)
contiguous_loop_nostart(i, start, acc, sh, elements_per_instance, arr) ==
    IF i >= Len(elements_per_instance) \/ acc.err # "none" THEN acc
    ELSE LET n == elements_per_instance[i + 1]
         IN contiguous_loop_nostart(i + 1, start,
                                    SetRowSlice(acc, sh, {r \in i..i : r < sh[1]},
                                                n, GetSlice(arr, start, start + n)),
                                    sh, elements_per_instance, arr)

\* the loop "for i, n in enumerate(elements_per_instance)" from i on
RECURSIVE contiguous_loop(_, _, _, _, _, _)
contiguous_loop(i, start, acc, sh, elements_per_instance, arr) ==
    IF i >= Len(elements_per_instance) \/ acc.err # "none" THEN acc
    ELSE LET n == elements_per_instance[i + 1]
             sample_start == start
             sample_stop  == start + n
         IN contiguous_loop(i + 1, start + n,
                            SetRowSlice(acc, sh,
                                        {r \in i..i : r < sh[1]},
                                        sample_stop - sample_start,
                                        GetSlice(arr, sample_start, sample_stop)),
                            sh, elements_per_instance, arr)

uncompress_contiguous(sh, c, arr) ==
    contiguous_loop(0, 0,
                    [err |-> "none", data |-> masked_all(sh), placed |-> <<>>],
                    sh, c.elements_per_instance, arr)

(***************************************************************************)
(* GatheredArray.__getitem__, compression_type == 'DSG_indexed', and       *)
(* RaggedIndexedArray.__getitem__: the same loop over the instances.       *)
(***************************************************************************)
\* the loop "for i in range(uarray.shape[0])" from i on
RECURSIVE indexed_loop(_, _, _, _, _)
indexed_loop(i, acc, sh, index, arr) ==
    IF i >= sh[1] \/ acc.err # "none" THEN acc
    ELSE LET sample_dimension_indices == where(index, i)
         IN indexed_loop(i + 1,
                         SetRowSlice(acc, sh, {i},
                                     Len(sample_dimension_indices),
                                     Take(arr, sample_dimension_indices)),
                         sh, index, arr)

uncompress_indexed(sh, c, arr) ==
    indexed_loop(0, [err |-> "none", data |-> masked_all(sh), placed |-> <<>>],
                 sh, c.instances, arr)

RaggedIndexed_uncompress(sh, index_array, arr) ==
    indexed_loop(0, [err |-> "none", data |-> masked_all(sh), placed |-> <<>>],
                 sh, index_array, arr)

(***************************************************************************)
(* GatheredArray.__getitem__, compression_type == 'DSG_indexed_contiguous'.*)
(***************************************************************************)
\* elements_per_profile[j, profile_index]: two subscripts into the
\* one-dimensional array of counts; numpy raises IndexError (too many
\* indices)
Subscript2(a, j, k) == "IndexError"

\* lines 132-143: the slice of the sample dimension read for profile number
\* j (below n_profiles) of instance i, or the error raised on the way
sample_indices(c, i, j) ==
    LET xprofile_indices == where(c.profile_indices, i)
        profile_index == xprofile_indices[j + 1]
        start == IF profile_index = 0 THEN 0
                 ELSE sum(SubSeq(c.elements_per_profile, 1, profile_index))
        count == Subscript2(c.elements_per_profile, j, profile_index)
    IN IF count = "IndexError"
       THEN [err |-> "IndexError", start |-> start, stop |-> start]
       ELSE [err |-> "none", start |-> start, stop |-> start + count]

\* one pass of the inner loop body for instance i and profile number j
indexed_contiguous_body(acc, sh, i, j, c, arr) ==
    LET xprofile_indices == where(c.profile_indices, i)
        n_profiles == Len(xprofile_indices)
    IN IF j >= n_profiles THEN acc
       ELSE Raised(sample_indices(c, i, j).err)

\* the loops "for i in range(uarray.shape[0])", "for j in
\* range(uarray.shape[1])" from (i, j) on
RECURSIVE indexed_contiguous_loop(_, _, _, _, _, _)
indexed_contiguous_loop(i, j, acc, sh, c, arr) ==
    IF i >= sh[1] \/ acc.err # "none" THEN acc
    ELSE IF j >= sh[2] THEN indexed_contiguous_loop(i + 1, 0, acc, sh, c, arr)
    ELSE indexed_contiguous_loop(i, j + 1,
                                 indexed_contiguous_body(acc, sh, i, j, c, arr),
                                 sh, c, arr)

uncompress_indexed_contiguous(sh, c, arr) ==
    indexed_contiguous_loop(0, 0,
        [err |-> "none", data |-> masked_all(sh), placed |-> <<>>], sh, c, arr)

(***************************************************************************)
(* The subspace returned: uarray[indices].  Two index expressions are      *)
(* modelled: Ellipsis, and (slice(0, 1), ...), the first row.              *)
(***************************************************************************)
IndexExprs == {"Ellipsis", "FirstRow"}

Subspace(r, indices) ==
    IF r.err # "none" \/ indices = "Ellipsis" THEN r
    ELSE [r EXCEPT !.data = [t \in {u \in DOMAIN r.data : u[1] = 0} |-> r.data[t]]]

\* GatheredArray.__getitem__: dispatch on the compression type
Gathered_getitem(sh, c, arr, indices) ==
    Subspace(CASE c.type = "gathered"       -> uncompress_gathered(sh, c, arr)
               [] c.type = "DSG_contiguous" -> uncompress_contiguous(sh, c, arr)
               [] c.type = "DSG_indexed"    -> uncompress_indexed(sh, c, arr)
               [] c.type = "DSG_indexed_contiguous" ->
                                    uncompress_indexed_contiguous(sh, c, arr),
             indices)

\* RaggedIndexedArray.__getitem__
RaggedIndexed_getitem(sh, c, arr, indices) ==
    Subspace(RaggedIndexed_uncompress(sh, c.instances, arr), indices)

----------------------------------------------------------------------------
(***************************************************************************)
(* Descriptors, as the reader records them in g['compression'].            *)
(***************************************************************************)
EmptyDescriptor ==
    [type |-> "none", axis |-> 0, array_ndim |-> 1,
     indices |-> <<>>, elements_per_instance |-> <<>>,
     instances |-> <<>>, profile_indices |-> <<>>,
     elements_per_profile |-> <<>>, profiles_per_instance |-> <<>>,
     instance_dimension_size |-> 0, element_dimension_size |-> 0,
     element_dimension_1_size |-> 0, element_dimension_2_size |-> 0]

\* _parse_compression_gathered and _aaa0: indices is the content of the list
\* variable, sample_axis the position of the sample dimension among the
\* dimensions of the compressed variable, which has array_ndim of them
gathered_descriptor(indices, sample_axis, array_ndim) ==
    [EmptyDescriptor EXCEPT !.type = "gathered", !.indices = indices,
                            !.axis = sample_axis, !.array_ndim = array_ndim]

\* _parse_DSG_contiguous_compression: counts is the content of the count
\* variable
DSG_contiguous_descriptor(counts) ==
    [EmptyDescriptor EXCEPT !.type = "DSG_contiguous",
                            !.elements_per_instance = counts,
                            !.instance_dimension_size = Len(counts),
                            !.element_dimension_size = max(counts)]

\* mutant of DSG_indexed_descriptor: the instance dimension is given the
\* number of distinct values of the index variable
DSG_indexed_descriptor_distinct(index, dimsize) ==
    [EmptyDescriptor EXCEPT !.type = "DSG_indexed",
                            !.elements_per_instance = unique_counts(index),
                            !.instances = unique_inverse(index),
                            !.instance_dimension_size = Len(unique(index)),
                            !.element_dimension_size = max(unique_counts(index))]

\* _parse_DSG_indexed_compression: index is the content of the index
\* variable, dimsize the size of the dimension its attribute names
DSG_indexed_descriptor(index, dimsize) ==
    [EmptyDescriptor EXCEPT !.type = "DSG_indexed",
                            !.elements_per_instance = unique_counts(index),
                            !.instances = unique_inverse(index),
                            !.instance_dimension_size = dimsize,
                            !.element_dimension_size = max(unique_counts(index))]

\* _parse_DSG_indexed_contiguous_compression
DSG_indexed_contiguous_descriptor(contiguous, indexed) ==
    [EmptyDescriptor EXCEPT
        !.type = "DSG_indexed_contiguous",
        !.profiles_per_instance = indexed.elements_per_instance,
        !.elements_per_profile = contiguous.elements_per_instance,
        !.profile_indices = indexed.instances,
        !.instance_dimension_size = indexed.instance_dimension_size,
        !.element_dimension_1_size = max(indexed.elements_per_instance),
        !.element_dimension_2_size = max(contiguous.elements_per_instance)]

(***************************************************************************)
(* The uncompressed shape, ndim and size the reader hands to the array     *)
(* object (_aaa0 .. _aaa3).                                                *)
(***************************************************************************)
\* mutant of Geometry: the fold that computes the size starts from 0
Geometry_zero(uncompressed_shape) ==
    [shape |-> uncompressed_shape,
     ndim  |-> Len(uncompressed_shape),
     size  |-> reduce_mul(uncompressed_shape, 0)]

Geometry(uncompressed_shape) ==
    [shape |-> uncompressed_shape,
     ndim  |-> Len(uncompressed_shape),
     size  |-> reduce_mul(uncompressed_shape, 1)]

\* sizes: the sizes of the dimensions _ncdimensions returns for the variable
aaa0(sizes) == Geometry(sizes)

aaa1(c) == Geometry(<<c.instance_dimension_size, c.element_dimension_size>>)

aaa2(c) == Geometry(<<c.instance_dimension_size, c.element_dimension_size>>)

aaa3(c) == Geometry(<<c.instance_dimension_size, c.element_dimension_1_size,
                      c.element_dimension_2_size>>)

----------------------------------------------------------------------------
(***************************************************************************)
(* The array specification: one compressed array object, indexed any       *)
(* number of times.                                                        *)
(***************************************************************************)
\* the on-disk values of a sample dimension of size n: value p at position
\* p - 1, so that every element is told apart from the others
Values(n) == [p \in 1..n |-> p]

\* the shapes a gathered array is given
Shapes ==
    UNION {{sh \in [1..k -> 1..MaxSize] : reduce_mul(sh, 1) <= MaxSize} :
              k \in 1..MaxAxes}

\* no dataset, and a reader that has read nothing
NoFile == [dimensions |-> <<>>, global_attributes |-> {}, variables |-> <<>>]

\* no Variable and no Array object is in play
ObjectsIdle ==
    /\ properties = <<>>
    /\ _fill_value = {}
    /\ fillval = [called |-> FALSE, default |-> {}, out |-> {}]
    /\ exception = "none"
    /\ heap = <<>>
    /\ self_dict = <<>>
    /\ new_dict = <<>>
    /\ copied = FALSE
    /\ changes = 0

\* __init__: the template of the read variables, the entries the scan
\* looks at
initial_read_vars ==
    [new_dimensions |-> <<>>, compression |-> <<>>, uncompress |-> TRUE,
     verbose |-> FALSE]

ReadIdle ==
    /\ _read_vars = initial_read_vars
    /\ aliased = FALSE
    /\ nc = "none"
    /\ pc = "idle"
    /\ todo = {}
    /\ g_compression = <<>>
    /\ do_not_create_field = {}
    /\ references = <<>>
    /\ fields = <<>>
    /\ new_dimensions = <<>>
    /\ read_report = <<>>
    /\ read_sample_dimension = {}
    /\ read_instance_dimension = {}
    /\ fields_in_file = {}
    /\ raised = "none"
    /\ reads = 0
    /\ uncompress = TRUE
    /\ scan_data = <<>>

Constructed(class, geometry, c, disk, arr) ==
    /\ file = NoFile
    /\ ReadIdle
    /\ ObjectsIdle
    /\ cls = class
    /\ array = arr
    /\ shape = geometry.shape
    /\ size = geometry.size
    /\ ndim = geometry.ndim
    /\ compression = c
    /\ ondisk = disk
    /\ returned = [indices \in IndexExprs |-> NoCall]

\* the stored indices tried for a list of collapsed sizes: the valid ones,
\* the product of the sizes (too large), and the negative ones down to one
\* below what the last axis accepts as an index counted from its end
StoredIndices(sh) == (-(sh[Len(sh)] + 1))..reduce_mul(sh, 1)

\* the uncompressed shape: the leading axes, then the collapsed ones
Uncompressed(sh) == [j \in 1..LeadAxes |-> 1] \o sh

\* a gathered array of collapsed sizes sh over the list variable indices
ConstructedGathered(sh, indices) ==
    Constructed("GatheredArray", aaa0(Uncompressed(sh)),
                gathered_descriptor(indices, LeadAxes, LeadAxes + 1),
                indices, Values(Len(indices)))

\* a gathered array over any list variable, well-formed or not
InitGathered ==
    \E sh \in Shapes, n \in 0..MaxSamples :
        \E indices \in [1..n -> StoredIndices(sh)] :
            ConstructedGathered(sh, indices)

\* the gathered example: sizes (2, 3), list variable 0..5
InitGatheredExample == ConstructedGathered(<<2, 3>>, <<0, 1, 2, 3, 4, 5>>)

\* three collapsed axes, each of size 2, and one stored index
InitGatheredCube ==
    \E indices \in [1..1 -> StoredIndices(<<2, 2, 2>>)] :
        ConstructedGathered(<<2, 2, 2>>, indices)

\* a contiguous ragged array: the sample dimension holds sum(counts) values
InitContiguous ==
    \E n \in 1..MaxInstances :
        \E counts \in [1..n -> 0..MaxCount] :
            LET c == DSG_contiguous_descriptor(counts)
            IN Constructed("GatheredArray", aaa1(c), c, counts,
                           Values(sum(counts)))

\* an indexed ragged array built by the reader
InitIndexed ==
    \E dimsize \in 1..MaxInstances, n \in 1..MaxElems :
        \E index \in [1..n -> 0..(dimsize - 1)] :
            LET c == DSG_indexed_descriptor(index, dimsize)
            IN Constructed("GatheredArray", aaa2(c), c, index, Values(n))

\* a RaggedIndexedArray: index_array is the data of the index variable
InitRaggedIndexed ==
    \E dimsize \in 1..MaxInstances, n \in 1..MaxElems :
        \E index \in [1..n -> 0..(dimsize - 1)] :
            LET c == [EmptyDescriptor EXCEPT !.type = "ragged indexed",
                                             !.instances = index]
            IN Constructed("RaggedIndexedArray",
                           Geometry(<<dimsize, max(unique_counts(index))>>),
                           c, index, Values(n))

\* the indexed example: index variable 1, 0, 1, 0, read by either class
InitIndexedExample ==
    \/ LET c == DSG_indexed_descriptor(<<1, 0, 1, 0>>, 2)
       IN Constructed("GatheredArray", aaa2(c), c, <<1, 0, 1, 0>>, Values(4))
    \/ Constructed("RaggedIndexedArray", Geometry(<<2, 2>>),
                   [EmptyDescriptor EXCEPT !.type = "ragged indexed",
                                           !.instances = <<1, 0, 1, 0>>],
                   <<1, 0, 1, 0>>, Values(4))

\* an indexed contiguous ragged array: index tells the instance of each
\* profile, counts the number of elements of each profile
InitIndexedContiguous ==
    \E dimsize \in 1..MaxInstances, n \in 1..MaxProfiles :
        \E index \in [1..n -> 0..(dimsize - 1)],
           counts \in [1..n -> 1..MaxProfileCount] :
            LET c == DSG_indexed_contiguous_descriptor(
                         DSG_contiguous_descriptor(counts),
                         DSG_indexed_descriptor(index, dimsize))
            IN Constructed("GatheredArray", aaa3(c), c, index,
                           Values(sum(counts)))

\* the indexed contiguous example: profiles p0, p2 in instance 0, p1 in
\* instance 1, with 2, 3 and 1 elements
InitIndexedContiguousExample ==
    LET c == DSG_indexed_contiguous_descriptor(
                 DSG_contiguous_descriptor(<<2, 3, 1>>),
                 DSG_indexed_descriptor(<<0, 1, 0>>, 2))
    IN Constructed("GatheredArray", aaa3(c), c, <<0, 1, 0>>, Values(6))

InitArray ==
    \/ InitGathered
    \/ InitGatheredExample
    \/ InitGatheredCube
    \/ InitContiguous
    \/ InitIndexed
    \/ InitRaggedIndexed
    \/ InitIndexedExample
    \/ InitIndexedContiguous
    \/ InitIndexedContiguousExample

\* mutant of array_after_getitem: the call masks the wrapped array in place
array_masked_in_place(arr) == [p \in DOMAIN arr |-> MASKED]

\* __getitem__ assigns no attribute of self: the wrapped array is what it was
array_after_getitem(arr) == arr

\* x[indices] on a GatheredArray
GatheredGetItem(indices) ==
    /\ cls = "GatheredArray"
    /\ returned' = [returned EXCEPT ![indices] =
                       Gathered_getitem(shape, compression, array, indices)]
    /\ array' = array_after_getitem(array)
    /\ UNCHANGED <<cls, shape, size, ndim, compression, ondisk>>
    /\ UNCHANGED <<readvars, objvars>>

\* x[indices] on a RaggedIndexedArray
RaggedIndexedGetItem(indices) ==
    /\ cls = "RaggedIndexedArray"
    /\ returned' = [returned EXCEPT ![indices] =
                       RaggedIndexed_getitem(shape, compression, array, indices)]
    /\ array' = array_after_getitem(array)
    /\ UNCHANGED <<cls, shape, size, ndim, compression, ondisk>>
    /\ UNCHANGED <<readvars, objvars>>

NextArray ==
    \E indices \in IndexExprs :
        \/ GatheredGetItem(indices)
        \/ RaggedIndexedGetItem(indices)

SpecArray == InitArray /\ [][NextArray]_vars

----------------------------------------------------------------------------
(***************************************************************************)
(* The read session: ReadNetCDF.read and the scan for list, count and      *)
(* index variables.                                                        *)
(* A name (of a dimension or of a variable) and the text of an attribute   *)
(* are sequences of symbols: a symbol is the blank, or a run of characters *)
(* without a blank ("x", "obs", "timeSeries").  A variable of the dataset  *)
(* is [dimensions, attributes, data], the attributes a set of              *)
(* <<name, value>> pairs with value [kind, chars]: kind "str" for text,    *)
(* "int" for a number.  g['compression'] maps a dimension to a map from    *)
(* compression type to parameters.                                         *)
(***************************************************************************)
Letters == {"x", "y"}
space == " "

\* attribute texts of at most n characters
RECURSIVE Strings(_)
Strings(n) ==
    IF n = 0 THEN {<<>>}
    ELSE LET shorter == Strings(n - 1)
         IN shorter \cup {Append(t, ch) : t \in shorter, ch \in Letters \cup {space}}

Str(chars) == [kind |-> "str", chars |-> chars]
Number == [kind |-> "int", chars |-> <<>>]

\* attributes.get(key): the values found under key; {} stands for None
get(attributes, key) == {a[2] : a \in {b \in attributes : b[1] = key}}

\* str.split(): the maximal runs of non-blank characters, in order; from
\* position p on, with the words found so far and the word being read
RECURSIVE split_from(_, _, _, _)
split_from(string, p, words, word) ==
    IF p > Len(string)
    THEN IF word = <<>> THEN words ELSE Append(words, word)
    ELSE IF string[p] = space
         THEN split_from(string, p + 1,
                         IF word = <<>> THEN words ELSE Append(words, word), <<>>)
         ELSE split_from(string, p + 1, words, Append(word, string[p]))

split(string) == split_from(string, 1, <<>>, <<>>)

\* _parse_y: string.split(); a value that is no text has no split attribute
parse_y(value) ==
    IF value.kind = "str" THEN [err |-> "none", parsed |-> split(value.chars)]
    ELSE [err |-> "AttributeError", parsed |-> <<>>]

\* mutant of check_compress: every named dimension passes
check_compress_accepts(ncdimensions, parsed_compress) == TRUE

\* _check_compress: each named netCDF dimension exists in the file
check_compress(ncdimensions, parsed_compress) ==
    \A p \in DOMAIN parsed_compress : parsed_compress[p] \in ncdimensions

\* _check_sample_dimension, _check_instance_dimension: the value of the
\* attribute is (the name of) a dimension of the file
check_dimension(ncdimensions, value) ==
    value.kind = "str" /\ value.chars \in ncdimensions

\* d[key] = value
setitem(d, key, value) ==
    [k \in DOMAIN d \cup {key} |-> IF k = key THEN value ELSE d[k]]

\* del d[key]
delitem(d, key) == [k \in DOMAIN d \ {key} |-> d[k]]

\* d.setdefault(key, {})[type] = value
setdefault_setitem(d, key, type, value) ==
    setitem(d, key, setitem(IF key \in DOMAIN d THEN d[key] ELSE <<>>, type, value))

\* ncdimensions[i:i+1] = implied, at 1-based position i
replaced(dims, i, implied) ==
    SubSeq(dims, 1, i - 1) \o implied \o SubSeq(dims, i + 1, Len(dims))

\* _ncdimensions, the loop over the dimensions from position i on: the first
\* compressed dimension decides, and the loop is left
RECURSIVE ncdimensions_from(_, _, _)
ncdimensions_from(g, dims, i) ==
    IF i > Len(dims) THEN dims
    ELSE IF dims[i] \in DOMAIN g
         THEN LET c == g[dims[i]]
              IN IF "gathered" \in DOMAIN c
                 THEN replaced(dims, i, c["gathered"].implied_ncdimensions)
                 ELSE IF "DSG_indexed_contiguous" \in DOMAIN c
                 THEN c["DSG_indexed_contiguous"].implied_ncdimensions
                 ELSE IF "DSG_contiguous" \in DOMAIN c
                 THEN c["DSG_contiguous"].implied_ncdimensions
                 ELSE IF "DSG_indexed" \in DOMAIN c
                 THEN c["DSG_indexed"].implied_ncdimensions
                 ELSE dims
         ELSE ncdimensions_from(g, dims, i + 1)

\* _ncdimensions: the dimensions of the uncompressed variable
ncdimensions(g, ncvar) == ncdimensions_from(g, file.variables[ncvar].dimensions, 1)

(***************************************************************************)
(* The data of a variable.  A data object is [compression_type, ncdim,     *)
(* shape, compression_parameters]: "none" for the array as it is on disk,  *)
(* else the type of the compressed array that wraps it, the dimension      *)
(* whose descriptor it was built from and the descriptor.                  *)
(***************************************************************************)
\* the sizes of the variable's dimensions in the file
ondisk_shape(ncvar) ==
    LET dims == file.variables[ncvar].dimensions
    IN [p \in DOMAIN dims |-> file.dimensions[dims[p]]]

\* _create_Data(filearray): the array as it is on disk
create_Data(ncvar) ==
    [compression_type |-> "none", ncdim |-> <<>>, shape |-> ondisk_shape(ncvar),
     compression_parameters |-> <<>>]

\* mutant of aaa0_parameters: the sample axis is written into the
\* descriptor the compression map holds
aaa0_parameters_shared(g, ncdim, sample_axis) ==
    LET c == g[ncdim]["gathered"] @@ [sample_axis |-> sample_axis]
    IN [c |-> c, compression |-> setitem(g, ncdim, setitem(g[ncdim], "gathered", c))]

\* _aaa0, "c = c.copy(); c['sample_axis'] = ..": the parameters the array
\* is given, and the compression map afterwards
aaa0_parameters(g, ncdim, sample_axis) ==
    [c |-> g[ncdim]["gathered"] @@ [sample_axis |-> sample_axis],
     compression |-> g]

\* tuple.index(ncdim), 0-based
dimensions_index(dims, ncdim) ==
    (CHOOSE p \in DOMAIN dims :
        dims[p] = ncdim /\ \A q \in 1..(p - 1) : dims[q] # ncdim) - 1

\* _create_data, the body of the loop for a compressed dimension ncdim:
\* [err, data, compression]
compressed_data(g, ncvar, ncdim) ==
    LET c == g[ncdim]
        Wrapped(type, parameters, sh) ==
            [err |-> "none",
             data |-> [compression_type |-> type, ncdim |-> ncdim, shape |-> sh,
                       compression_parameters |-> parameters],
             compression |-> g]
    IN IF "gathered" \in DOMAIN c
       THEN LET implied == ncdimensions(g, ncvar)
                a == aaa0_parameters(g, ncdim,
                                     dimensions_index(file.variables[ncvar].dimensions,
                                                      ncdim))
            IN IF \E p \in DOMAIN implied : implied[p] \notin DOMAIN file.dimensions
               THEN [err |-> "KeyError", data |-> create_Data(ncvar),
                     compression |-> g]
               ELSE [Wrapped("gathered", a.c,
                         aaa0([p \in DOMAIN implied |->
                                  file.dimensions[implied[p]]]).shape)
                     EXCEPT !.compression = a.compression]
       ELSE IF "DSG_indexed_contiguous" \in DOMAIN c
       THEN Wrapped("DSG_indexed_contiguous", c["DSG_indexed_contiguous"],
                    aaa3(c["DSG_indexed_contiguous"].c).shape)
       ELSE IF "DSG_contiguous" \in DOMAIN c
       THEN Wrapped("DSG_contiguous", c["DSG_contiguous"],
                    aaa1(c["DSG_contiguous"].c).shape)
       ELSE IF "DSG_indexed" \in DOMAIN c
       THEN Wrapped("DSG_indexed", c["DSG_indexed"],
                    aaa2(c["DSG_indexed"].c).shape)
       ELSE [err |-> "ValueError", data |-> create_Data(ncvar), compression |-> g]

\* _create_data, the loop over the variable's dimensions from position i on:
\* every compressed dimension builds the data anew, the loop is not left
RECURSIVE create_data_from(_, _, _, _)
create_data_from(r, ncvar, dims, i) ==
    IF i > Len(dims) \/ r.err # "none" THEN r
    ELSE create_data_from(IF dims[i] \in DOMAIN r.compression
                          THEN compressed_data(r.compression, ncvar, dims[i])
                          ELSE r,
                          ncvar, dims, i + 1)

\* _create_data(ncvar, uncompress_override=..), the override "None", "True"
\* or "False": [err, data, compression]
create_data(g, ncvar, uncompress_override) ==
    LET dims == file.variables[ncvar].dimensions
        raw == [err |-> "none", data |-> create_Data(ncvar), compression |-> g]
    IN IF \/ (uncompress_override # "None" /\ uncompress_override # "True")
          \/ DOMAIN g = {}
          \/ ~uncompress
          \/ DOMAIN g \cap {dims[p] : p \in DOMAIN dims} = {}
       THEN raw
       ELSE create_data_from(raw, ncvar, dims, 1)

\* the position of the cell at coordinates t of an array in C order
ravel(sh, t) ==
    sum([j \in 1..Len(sh) |-> t[j] * reduce_mul(SubSeq(sh, j + 1, Len(sh)), 1)])

\* the cells of an uncompressed array of the given shape in C order
flat(sh, cells) ==
    [k \in 1..reduce_mul(sh, 1) |->
        cells[CHOOSE t \in Coords(sh) : ravel(sh, t) = k - 1]]

\* Data.get_array() of the data of a variable: the content of the variable,
\* or what the compressed array that wraps it returns for the whole array
get_array(ncvar, data) ==
    LET arr == file.variables[ncvar].data
        c == data.compression_parameters.c
    IN CASE data.compression_type = "none" -> arr
         [] data.compression_type = "DSG_contiguous" ->
                flat(data.shape, uncompress_contiguous(data.shape, c, arr).data)
         [] data.compression_type = "DSG_indexed" ->
                flat(data.shape, uncompress_indexed(data.shape, c, arr).data)

\* _parse_compression_gathered: the compression map afterwards, or the error
parse_compression_gathered(g, ncvar, compress) ==
    LET gathered_ncdimension == file.variables[ncvar].dimensions[1]
        y == parse_y(compress)
        cf_compliant == check_compress(DOMAIN file.dimensions, y.parsed)
        indices == create_data(g, ncvar, "True").data
    IN IF y.err # "none" THEN [err |-> y.err, compression |-> g, data |-> <<>>]
       ELSE IF ~cf_compliant
       THEN [err |-> "none", compression |-> g, data |-> <<>>]
       ELSE [err |-> "none",
             compression |->
                 setitem(g, gathered_ncdimension,
                         "gathered" :> [indices |-> get_array(ncvar, indices),
                                        implied_ncdimensions |-> y.parsed]),
             data |-> indices]

(***************************************************************************)
(* The element dimension a count or index variable implies.                *)
(***************************************************************************)
\* g['featureType'], set when the global attribute is not None
g_featureType ==
    CHOOSE value \in get(file.global_attributes, "featureType") : TRUE

\* str.lower() of a featureType
lower(chars) ==
    IF chars = <<"timeSeries">> THEN <<"timeseries">> ELSE chars

\* the name a contiguous ragged array's element dimension starts from
contiguous_base(featureType) ==
    IF featureType \in {Str(<<"timeSeries">>), Str(<<"trajectory">>),
                        Str(<<"profile">>)}
    THEN lower(featureType.chars)
    ELSE IF featureType = Str(<<"timeSeriesProfile">>) THEN <<"profile">>
    ELSE IF featureType = Str(<<"trajectoryProfile">>) THEN <<"profile">>
    ELSE <<"element">>

\* the name an indexed ragged array's element dimension starts from
indexed_base(featureType) ==
    IF featureType \in {Str(<<"timeSeries">>), Str(<<"trajectory">>),
                        Str(<<"profile">>)}
    THEN lower(featureType.chars)
    ELSE IF featureType = Str(<<"timeSeriesProfile">>) THEN <<"timeseries">>
    ELSE IF featureType = Str(<<"trajectoryProfile">>) THEN <<"trajectory">>
    ELSE <<"element">>

\* str(n) of a small n
digits == <<"0", "1", "2", "3", "4", "5", "6", "7", "8", "9">>

\* the loop "while element_dimension in dimensions or in new_dimensions",
\* entered with counter n: '{0}_{1}'.format(base, n) for the first n that
\* is the name of no dimension
RECURSIVE make_up_from(_, _, _)
make_up_from(base, n, taken) ==
    LET element_dimension == IF n = 0 THEN base
                             ELSE base \o <<"_", digits[n + 1]>>
    IN IF element_dimension \in taken THEN make_up_from(base, n + 1, taken)
       ELSE element_dimension

\* mutant of make_up: the names made up earlier are not looked at
make_up_unseen(base, new) == make_up_from(base, 0, DOMAIN file.dimensions)

\* the made-up name: the dimensions of the file and the dimensions made up
\* so far are taken
make_up(base, new) == make_up_from(base, 0, DOMAIN file.dimensions \cup DOMAIN new)

(***************************************************************************)
(* The descriptors of the ragged representations.  The parameters are      *)
(* [c, implied_ncdimensions, ..]: c holds the arrays and sizes that the    *)
(* array object is later given, the other entries the dimension names.     *)
(***************************************************************************)
\* _parse_DSG_contiguous_compression: the compression map and the new
\* dimensions afterwards
parse_DSG_contiguous_compression(g, new, ncvar, sample_dimension) ==
    LET instance_dimension == file.variables[ncvar].dimensions[1]
        elements_per_instance == create_data(g, ncvar, "True").data
        c == DSG_contiguous_descriptor(get_array(ncvar, elements_per_instance))
        element_dimension == make_up(contiguous_base(g_featureType), new)
    IN [compression |->
            setdefault_setitem(g, sample_dimension, "DSG_contiguous",
                [c |-> c,
                 implied_ncdimensions |-> <<instance_dimension, element_dimension>>,
                 profile_ncdimension |-> instance_dimension,
                 element_dimension |-> element_dimension]),
        new_dimensions |->
            setitem(new, element_dimension, c.element_dimension_size),
        data |-> elements_per_instance]

\* _parse_DSG_indexed_compression
parse_DSG_indexed_compression(g, new, ncvar, instance_dimension) ==
    LET index_data == create_data(g, ncvar, "True").data
        c == DSG_indexed_descriptor(get_array(ncvar, index_data),
                                    file.dimensions[instance_dimension])
        element_dimension == make_up(indexed_base(g_featureType), new)
        indexed_sample_dimension == file.variables[ncvar].dimensions[1]
    IN [compression |->
            setdefault_setitem(g, indexed_sample_dimension, "DSG_indexed",
                [c |-> c,
                 implied_ncdimensions |-> <<instance_dimension, element_dimension>>,
                 element_dimension |-> element_dimension]),
        new_dimensions |->
            setitem(new, element_dimension, c.element_dimension_size),
        data |-> index_data]

\* mutant of composed_parameters: the trailing implied dimensions swapped
composed_parameters_swapped(contiguous, indexed, instance_dimension) ==
    [c |-> DSG_indexed_contiguous_descriptor(contiguous.c, indexed.c),
     implied_ncdimensions |-> <<instance_dimension,
                                contiguous.element_dimension,
                                indexed.element_dimension>>]

\* _parse_DSG_indexed_contiguous_compression, lines 708-733: the parameters
\* of the composed descriptor
composed_parameters(contiguous, indexed, instance_dimension) ==
    [c |-> DSG_indexed_contiguous_descriptor(contiguous.c, indexed.c),
     implied_ncdimensions |-> <<instance_dimension,
                                indexed.element_dimension,
                                contiguous.element_dimension>>]

\* _parse_DSG_indexed_contiguous_compression: the compression map
\* afterwards, or the KeyError of a subscript that finds no entry
parse_DSG_indexed_contiguous_compression(g, sample_dimension, instance_dimension) ==
    LET contiguous == g[sample_dimension]["DSG_contiguous"]
        profile_ncdimension == contiguous.profile_ncdimension
    IN IF \/ sample_dimension \notin DOMAIN g
          \/ "DSG_contiguous" \notin DOMAIN g[sample_dimension]
          \/ profile_ncdimension \notin DOMAIN g
          \/ "DSG_indexed" \notin DOMAIN g[profile_ncdimension]
       THEN [err |-> "KeyError", compression |-> g]
       ELSE LET indexed == g[profile_ncdimension]["DSG_indexed"]
                composed == setdefault_setitem(g, sample_dimension,
                                "DSG_indexed_contiguous",
                                composed_parameters(contiguous, indexed,
                                                    instance_dimension))
            IN [err |-> "none",
                compression |->
                    setitem(composed, sample_dimension,
                            delitem(composed[sample_dimension], "DSG_contiguous"))]

(***************************************************************************)
(* Field creation.                                                         *)
(***************************************************************************)
\* there is a Unidata coordinate variable for the dimension
is_coordinate_variable(ncdim) ==
    /\ ncdim \in DOMAIN file.variables
    /\ file.variables[ncdim].dimensions = <<ncdim>>

\* _reference
reference(r, ncvar) ==
    setitem(r, ncvar, (IF ncvar \in DOMAIN r THEN r[ncvar] ELSE 0) + 1)

\* _create_field, the loop over field_ncdimensions: the dimension coordinate
\* of each dimension that has a coordinate variable is referenced
RECURSIVE reference_coordinates(_, _, _)
reference_coordinates(r, field_ncdimensions, i) ==
    IF i > Len(field_ncdimensions) THEN r
    ELSE reference_coordinates(
             IF is_coordinate_variable(field_ncdimensions[i])
             THEN reference(r, field_ncdimensions[i]) ELSE r,
             field_ncdimensions, i + 1)

\* _create_field, the loop over the parsed coordinates attribute: each
\* variable of the file it names, the field's own dimensions apart, is made
\* a coordinate of the field and referenced
RECURSIVE reference_auxiliary(_, _, _, _)
reference_auxiliary(r, parsed_coordinates, field_ncdimensions, i) ==
    IF i > Len(parsed_coordinates) THEN r
    ELSE LET ncvar == parsed_coordinates[i]
             skip == \/ \E p \in DOMAIN field_ncdimensions :
                           field_ncdimensions[p] = ncvar
                     \/ ncvar \notin DOMAIN file.variables
         IN reference_auxiliary(IF skip THEN r ELSE reference(r, ncvar),
                                parsed_coordinates, field_ncdimensions, i + 1)

\* _create_field, lines 1016-1075: the size of the domain axis made for a
\* dimension of the field, from the data of its coordinate variable if it
\* has one
axis_size(g, new, ncdim) ==
    IF is_coordinate_variable(ncdim)
    THEN reduce_mul(create_data(g, ncdim, "None").data.shape, 1)
    ELSE IF ncdim \in DOMAIN new THEN new[ncdim]
    ELSE file.dimensions[ncdim]

\* _create_field: the dimensions, domain axis sizes and data of the field,
\* and the reference counts and compression map afterwards; the coordinates
\* attributes of the datasets are text
create_field(g, new, r, field_ncvar) ==
    LET field_ncdimensions == ncdimensions(g, field_ncvar)
        data == create_data(g, field_ncvar, "None")
        r1 == reference_coordinates(r, field_ncdimensions, 1)
        coordinates == get(file.variables[field_ncvar].attributes, "coordinates")
        parsed_coordinates ==
            IF coordinates = {} THEN <<>>
            ELSE parse_y(CHOOSE value \in coordinates : TRUE).parsed
    IN [err |-> data.err,
        field |-> [ncdimensions |-> field_ncdimensions,
                   data_axes |-> [p \in DOMAIN field_ncdimensions |->
                                     axis_size(g, new, field_ncdimensions[p])],
                   data |-> data.data,
                   read_report |-> (field_ncvar :> <<>>)],
        references |-> reference_auxiliary(r1, parsed_coordinates,
                                           field_ncdimensions, 1),
        compression |-> data.compression]

\* _is_unreferenced
is_unreferenced(r, ncvar) == (IF ncvar \in DOMAIN r THEN r[ncvar] ELSE 0) <= 0

\* mutant of excluded: the variable is left out of the set
excluded_not(s, ncvar) == s

\* g['do_not_create_field'].add(ncvar)
excluded(s, ncvar) == s \cup {ncvar}

(***************************************************************************)
(* The datasets.                                                           *)
(* Gathered: a list variable s over dimension s, with any compress         *)
(* attribute or none; a data variable d over (t, s); and, for each of the  *)
(* dimensions x and y the file has, possibly a coordinate variable, which  *)
(* for x may itself be a list variable, with compress = "y".               *)
(* Ragged: a featureType; a variable c over the profile dimension with the *)
(* element counts, which a sample_dimension attribute makes a count        *)
(* variable; a variable i with instance indices, which an                  *)
(* instance_dimension attribute makes an index variable, over the profile  *)
(* dimension, over another dimension q or (without a count variable) over  *)
(* the sample dimension obs; a data variable d over obs or (obs, z).       *)
(* Geometry: a data variable d with an auxiliary coordinate lat and,       *)
(* through its geometry attribute, a geometry container, a node count      *)
(* variable and a node coordinate variable.                                *)
(***************************************************************************)
Compress(value) == {<<"compress", value>>}

Variable(dims, attributes) ==
    [dimensions |-> dims, attributes |-> attributes, data |-> <<>>]

DataVariable(dims, attributes, data) ==
    [dimensions |-> dims, attributes |-> attributes, data |-> data]

\* the compress attributes tried on s: none, a number, any text
ListAttributes ==
    {{}, Compress(Number)} \cup {Compress(Str(t)) : t \in Strings(MaxAttrLen)}

\* the sizes of the dimensions of the gathered datasets
gathered_sizes ==
    <<"s">> :> 2 @@ <<"t">> :> 1 @@ <<"x">> :> 2 @@ <<"y">> :> 3

\* the datasets with dimensions s, t and D, coordinate variables for C
FilesOver(D) ==
    {[dimensions |-> [ncdim \in {<<"s">>, <<"t">>} \cup D |-> gathered_sizes[ncdim]],
      global_attributes |-> {},
      variables  |-> [v \in {<<"s">>, <<"d">>} \cup C |->
                         IF v = <<"s">> THEN Variable(<<v>>, a)
                         ELSE IF v = <<"d">> THEN Variable(<< <<"t">>, <<"s">> >>, {})
                         ELSE IF v = <<"x">> THEN Variable(<<v>>, ax)
                         ELSE Variable(<<v>>, {})]] :
        C \in SUBSET D,
        a \in ListAttributes,
        ax \in {{}, Compress(Str(<<"y">>))}}

GatheredFiles == UNION {FilesOver(D) : D \in SUBSET {<<"x">>, <<"y">>}}

FeatureTypes == {Str(<<"timeSeries">>), Str(<<"profile">>),
                 Str(<<"timeSeriesProfile">>), Str(<<"point">>)}

\* element counts of the profiles, and the instance of each profile
RaggedData == {[counts |-> <<2, 3, 1>>, index |-> <<0, 1, 0>>],
               [counts |-> <<1, 2>>, index |-> <<1, 1>>]}

\* the attribute that names a dimension: none, an existing dimension, a
\* dimension the file does not have, a number
Naming(attribute, ncdim) ==
    {{}, {<<attribute, Str(ncdim)>>}, {<<attribute, Str(<<"nodim">>)>>},
     {<<attribute, Number>>}}

\* the index along the sample dimension: instances 0 and 1 in turn
alternating(n) == [p \in 1..n |-> (p - 1) % 2]

RaggedFile(ft, rd, sample_attr, index_dim, instance_attr, data_dims) ==
    [dimensions |-> <<"obs">> :> sum(rd.counts) @@ <<"profile">> :> Len(rd.counts)
                    @@ <<"q">> :> Len(rd.index) @@ <<"station">> :> 2
                    @@ <<"z">> :> 1,
     global_attributes |-> {<<"featureType", ft>>},
     variables |->
         <<"c">> :> DataVariable(<< <<"profile">> >>, sample_attr, rd.counts)
         @@ <<"i">> :> DataVariable(<<index_dim>>, instance_attr,
                                    IF index_dim = <<"obs">>
                                    THEN alternating(sum(rd.counts))
                                    ELSE rd.index)
         @@ <<"d">> :> Variable(data_dims, {})]

RaggedFiles ==
    {RaggedFile(ft, rd, sample_attr, index_dim, instance_attr, data_dims) :
        ft \in FeatureTypes, rd \in RaggedData,
        sample_attr \in Naming("sample_dimension", <<"obs">>),
        index_dim \in {<<"profile">>, <<"q">>},
        instance_attr \in Naming("instance_dimension", <<"station">>),
        data_dims \in {<< <<"obs">> >>, << <<"obs">>, <<"z">> >>}}
    \cup
    {RaggedFile(ft, rd, sample_attr, <<"obs">>,
                {<<"instance_dimension", Str(<<"station">>)>>}, data_dims) :
        ft \in FeatureTypes, rd \in RaggedData,
        sample_attr \in Naming("sample_dimension", <<"obs">>)
                           \ {{<<"sample_dimension", Str(<<"obs">>)>>}},
        data_dims \in {<< <<"obs">> >>, << <<"obs">>, <<"z">> >>}}

\* a contiguous and an indexed variable that fit together, and a second
\* count variable c2 whose sample_dimension names no dimension of the file
OtherCountFiles ==
    {LET f == RaggedFile(ft, rd, {<<"sample_dimension", Str(<<"obs">>)>>},
                         <<"profile">>,
                         {<<"instance_dimension", Str(<<"station">>)>>},
                         << <<"obs">> >>)
     IN [f EXCEPT !.variables =
            @ @@ <<"c2">> :> DataVariable(<< <<"profile">> >>,
                                 {<<"sample_dimension", Str(<<"nodim">>)>>},
                                 rd.counts)] :
        ft \in FeatureTypes, rd \in RaggedData}

\* a contiguous and an indexed variable that fit together, and a data
\* variable over the sample dimension of both: obs and profile
TwoSampleFiles ==
    {RaggedFile(ft, rd, {<<"sample_dimension", Str(<<"obs">>)>>},
                <<"profile">>, {<<"instance_dimension", Str(<<"station">>)>>},
                << <<"obs">>, <<"profile">> >>) :
        ft \in FeatureTypes, rd \in RaggedData}

\* a count variable for the sample dimension obs, with as many elements in
\* every profile so that no cell of the uncompressed array is left without
\* a value, and an index variable over obs as well
SecondIndexFiles ==
    {LET f == RaggedFile(ft, [counts |-> <<2, 2>>, index |-> <<0, 1>>],
                         {<<"sample_dimension", Str(<<"obs">>)>>}, <<"obs">>,
                         {<<"instance_dimension", Str(<<"station">>)>>},
                         data_dims)
     IN f :
        ft \in FeatureTypes,
        data_dims \in {<< <<"obs">> >>, << <<"obs">>, <<"z">> >>}}

\* the variables a geometry attribute brings with it
geometry_variables ==
    <<"geometry_container">> :>
        Variable(<<>>, {<<"node_count", Str(<<"node_count">>)>>,
                        <<"node_coordinates", Str(<<"x">>)>>})
    @@ <<"node_count">> :> DataVariable(<< <<"instance">> >>, {}, <<2, 1>>)
    @@ <<"x">> :> Variable(<< <<"node">> >>, {})

\* one data variable and its auxiliary coordinate, with or without a
\* geometry
GeometryFiles ==
    {[dimensions |-> <<"instance">> :> 2 @@ <<"node">> :> 3,
      global_attributes |-> {},
      variables |->
          <<"d">> :> Variable(<< <<"instance">> >>,
                              {<<"coordinates", Str(<<"lat">>)>>} \cup geometry)
          @@ <<"lat">> :> Variable(<< <<"instance">> >>, {})
          @@ (IF geometry = {} THEN <<>> ELSE geometry_variables)] :
        geometry \in {{}, {<<"geometry", Str(<<"geometry_container">>)>>}}}

Files == GatheredFiles \cup RaggedFiles \cup OtherCountFiles \cup TwoSampleFiles
             \cup SecondIndexFiles \cup GeometryFiles

\* no compressed array object is in play
ArrayIdle ==
    /\ cls = "none"
    /\ array = <<>>
    /\ shape = <<>>
    /\ size = 0
    /\ ndim = 0
    /\ compression = EmptyDescriptor
    /\ ondisk = <<>>
    /\ returned = [indices \in IndexExprs |-> NoCall]

\* dict.update
update(d, other) ==
    [k \in DOMAIN d \cup DOMAIN other |->
        IF k \in DOMAIN other THEN other[k] ELSE d[k]]

\* the extra_read_vars a caller passes: None, or an entry of its own
ExtraReadVars == {<<>>, [verbose |-> TRUE]}

\* mutant of reset_read_vars: a shallow copy, which holds the maps of the
\* template themselves
reset_read_vars_shallow(template, extra_read_vars) ==
    [d |-> update(template, extra_read_vars), aliased |-> TRUE]

\* _reset_read_vars: a deep copy of the template, updated with the extra
\* read variables; no object in it is an object of the template
reset_read_vars(template, extra_read_vars) ==
    [d |-> update(template, extra_read_vars), aliased |-> FALSE]

\* what the step does to the template: a write to a map of the read
\* variables is a write to the template's map when the two are one object
template_written ==
    /\ _read_vars' = IF aliased
                     THEN [_read_vars EXCEPT !.compression = g_compression',
                                             !.new_dimensions = new_dimensions']
                     ELSE _read_vars
    /\ UNCHANGED aliased

\* a reader just constructed, and the dataset it will be given
InitRead ==
    /\ file \in Files
    /\ ReadIdle
    /\ ObjectsIdle
    /\ ArrayIdle

(***************************************************************************)
(* read(), in steps.                                                       *)
(***************************************************************************)
\* read, lines 183-291: the read variables are reset and the file is opened
ReadBegin ==
    /\ pc \in {"idle", "done", "raised"}
    /\ reads < MaxReads
    /\ reads' = reads + 1
    /\ \E extra_read_vars \in ExtraReadVars :
          LET r == reset_read_vars(_read_vars, extra_read_vars)
          IN /\ g_compression' = r.d.compression
             /\ new_dimensions' = r.d.new_dimensions
             /\ aliased' = r.aliased
    /\ UNCHANGED _read_vars
    /\ references' = <<>>
    /\ do_not_create_field' = {}
    /\ read_report' = <<>>
    /\ nc' = "open"
    /\ fields' = <<>>
    /\ fields_in_file' = {}
    /\ raised' = "none"
    /\ read_sample_dimension' = {}
    /\ read_instance_dimension' = {}
    /\ todo' = DOMAIN file.variables
    /\ pc' = "list_variables"
    /\ uncompress' \in BOOLEAN
    /\ scan_data' = <<>>
    /\ UNCHANGED <<file, arrvars, objvars>>

\* read, lines 296-304: one pass of the loop over the variables
ListVariable(ncvar) ==
    /\ pc = "list_variables"
    /\ ncvar \in todo
    /\ todo' = todo \ {ncvar}
    /\ LET compress == get(file.variables[ncvar].attributes, "compress")
           is_list == /\ file.variables[ncvar].dimensions = <<ncvar>>
                      /\ compress # {}
           r == parse_compression_gathered(g_compression, ncvar,
                                           CHOOSE value \in compress : TRUE)
       IN IF ~is_list
          THEN UNCHANGED <<g_compression, do_not_create_field, pc, raised,
                           scan_data>>
          ELSE IF r.err # "none"
          THEN /\ raised' = r.err
               /\ pc' = "raised"
               /\ UNCHANGED <<g_compression, do_not_create_field, scan_data>>
          ELSE /\ g_compression' = r.compression
               /\ do_not_create_field' = excluded(do_not_create_field, ncvar)
               /\ scan_data' = IF r.data = <<>> THEN scan_data
                               ELSE setitem(scan_data, ncvar, r.data)
               /\ UNCHANGED <<pc, raised>>
    /\ UNCHANGED <<file, nc, new_dimensions, references, read_report, fields,
                   fields_in_file, read_sample_dimension, read_instance_dimension,
                   reads, uncompress,
                   arrvars, objvars>>
    /\ template_written

\* read, lines 309-314: without a featureType the loops over the count and
\* index variables are skipped
DSGVariables ==
    /\ pc = "list_variables"
    /\ todo = {}
    /\ todo' = DOMAIN file.variables
    /\ pc' = IF get(file.global_attributes, "featureType") = {}
             THEN "create_fields" ELSE "count_variables"
    /\ read_sample_dimension' = {}
    /\ UNCHANGED <<file, nc, g_compression, new_dimensions, do_not_create_field,
                   references, read_report, fields, fields_in_file, raised,
                   read_instance_dimension, reads, uncompress, scan_data,
                   arrvars, objvars>>
    /\ template_written

\* read, lines 314-330: one pass of the loop over the variables
CountVariable(ncvar) ==
    /\ pc = "count_variables"
    /\ ncvar \in todo
    /\ todo' = todo \ {ncvar}
    /\ LET attribute == get(file.variables[ncvar].attributes, "sample_dimension")
           value == CHOOSE v \in attribute : TRUE
           r == parse_DSG_contiguous_compression(g_compression, new_dimensions,
                                                 ncvar, value.chars)
       IN IF attribute = {}
          THEN UNCHANGED <<read_sample_dimension, g_compression, new_dimensions,
                           do_not_create_field, scan_data>>
          ELSE IF ~check_dimension(DOMAIN file.dimensions, value)
          THEN /\ read_sample_dimension' = {}
               /\ UNCHANGED <<g_compression, new_dimensions, do_not_create_field,
                              scan_data>>
          ELSE /\ read_sample_dimension' = {value.chars}
               /\ g_compression' = r.compression
               /\ new_dimensions' = r.new_dimensions
               /\ scan_data' = setitem(scan_data, ncvar, r.data)
               /\ do_not_create_field' = excluded(do_not_create_field, ncvar)
    /\ UNCHANGED <<file, nc, pc, references, read_report, fields, fields_in_file,
                   raised, read_instance_dimension, reads, uncompress,
                   arrvars, objvars>>
    /\ template_written

\* read, lines 332-333: the loop over the index variables is entered
IndexVariables ==
    /\ pc = "count_variables"
    /\ todo = {}
    /\ todo' = DOMAIN file.variables
    /\ pc' = "index_variables"
    /\ read_instance_dimension' = {}
    /\ UNCHANGED <<file, nc, g_compression, new_dimensions, do_not_create_field,
                   references, read_report, fields, fields_in_file, raised,
                   read_sample_dimension, reads, uncompress, scan_data,
                   arrvars, objvars>>
    /\ template_written

\* read, lines 333-350: one pass of the loop over the variables
IndexVariable(ncvar) ==
    /\ pc = "index_variables"
    /\ ncvar \in todo
    /\ todo' = todo \ {ncvar}
    /\ LET attribute == get(file.variables[ncvar].attributes, "instance_dimension")
           value == CHOOSE v \in attribute : TRUE
           r == parse_DSG_indexed_compression(g_compression, new_dimensions,
                                              ncvar, value.chars)
       IN IF attribute = {}
          THEN UNCHANGED <<read_instance_dimension, g_compression, new_dimensions,
                           do_not_create_field, references, scan_data>>
          ELSE IF ~check_dimension(DOMAIN file.dimensions, value)
          THEN /\ read_instance_dimension' = {}
               /\ UNCHANGED <<g_compression, new_dimensions,
                              do_not_create_field, references, scan_data>>
          ELSE /\ read_instance_dimension' = {value.chars}
               /\ g_compression' = r.compression
               /\ new_dimensions' = r.new_dimensions
               /\ scan_data' = setitem(scan_data, ncvar, r.data)
               /\ references' = reference(references, ncvar)
               /\ do_not_create_field' = excluded(do_not_create_field, ncvar)
    /\ UNCHANGED <<file, nc, pc, read_report, fields, fields_in_file, raised,
                   read_sample_dimension, reads, uncompress,
                   arrvars, objvars>>
    /\ template_written

\* read, lines 351-360: with a sample dimension and an instance dimension
\* the two descriptors are composed
Compose ==
    /\ pc = "index_variables"
    /\ todo = {}
    /\ LET r == parse_DSG_indexed_contiguous_compression(
                    g_compression,
                    CHOOSE ncdim \in read_sample_dimension : TRUE,
                    CHOOSE ncdim \in read_instance_dimension : TRUE)
       IN IF read_sample_dimension = {} \/ read_instance_dimension = {}
          THEN /\ pc' = "create_fields"
               /\ todo' = DOMAIN file.variables
               /\ UNCHANGED <<g_compression, raised>>
          ELSE IF r.err # "none"
          THEN /\ raised' = r.err
               /\ pc' = "raised"
               /\ UNCHANGED <<g_compression, todo>>
          ELSE /\ g_compression' = r.compression
               /\ pc' = "create_fields"
               /\ todo' = DOMAIN file.variables
               /\ UNCHANGED raised
    /\ UNCHANGED <<file, nc, new_dimensions, do_not_create_field, references,
                   read_report, fields, fields_in_file, read_sample_dimension,
                   read_instance_dimension, reads, uncompress, scan_data,
                   arrvars, objvars>>
    /\ template_written

\* read, lines 361-366: one pass of the loop over the variables
CreateField(ncvar) ==
    /\ pc = "create_fields"
    /\ ncvar \in todo
    /\ todo' = todo \ {ncvar}
    /\ IF ncvar \in do_not_create_field
       THEN UNCHANGED <<fields, references, g_compression, pc, raised>>
       ELSE LET r == create_field(g_compression, new_dimensions, references,
                                  ncvar)
            IN IF r.err # "none"
               THEN /\ raised' = r.err
                    /\ pc' = "raised"
                    /\ UNCHANGED <<fields, references, g_compression>>
               ELSE /\ fields' = setitem(fields, ncvar, r.field)
                    /\ references' = r.references
                    /\ g_compression' = r.compression
                    /\ UNCHANGED <<pc, raised>>
    /\ UNCHANGED <<file, nc, new_dimensions, do_not_create_field, read_report,
                   fields_in_file, read_sample_dimension,
                   read_instance_dimension, reads, uncompress, scan_data,
                   arrvars, objvars>>
    /\ template_written

\* read, lines 368-400: the unreferenced fields are returned and the file
\* is closed
ReadReturn ==
    /\ pc = "create_fields"
    /\ todo = {}
    /\ fields_in_file' = {ncvar \in DOMAIN fields :
                             is_unreferenced(references, ncvar)}
    /\ nc' = "closed"
    /\ pc' = "done"
    /\ UNCHANGED <<file, todo, g_compression, new_dimensions,
                   do_not_create_field, references, read_report, fields, raised,
                   read_sample_dimension, read_instance_dimension, reads,
                   uncompress, scan_data, arrvars, objvars>>
    /\ template_written

NextRead ==
    \/ ReadBegin
    \/ \E ncvar \in DOMAIN file.variables : ListVariable(ncvar)
    \/ DSGVariables
    \/ \E ncvar \in DOMAIN file.variables : CountVariable(ncvar)
    \/ IndexVariables
    \/ \E ncvar \in DOMAIN file.variables : IndexVariable(ncvar)
    \/ Compose
    \/ \E ncvar \in DOMAIN file.variables : CreateField(ncvar)
    \/ ReadReturn

SpecRead == InitRead /\ [][NextRead]_vars

----------------------------------------------------------------------------
(***************************************************************************)
(* Variable (cfdm/core/variable.py; cfdm/abstract/variable.py has the same *)
(* code): the properties dictionary, the cached _fill_value and            *)
(* fill_value().  A property value is a number 1 .. MaxValue; an optional  *)
(* value is a set, {} being None.  fill_value(default='netCDF') is left    *)
(* out: the defaults tried are None and a number.                          *)
(***************************************************************************)
PropertyNames == {"missing_value", "_FillValue", "long_name"}

PropertyValues == 1..MaxValue

\* the defaults handed to fill_value(): None, and a value no property has
Defaults == {{}, {MaxValue + 1}}

\* the dictionaries handed to properties() and to the constructor: a value
\* of None asks for the property to be deleted
PropertyDicts ==
    UNION {[S -> {{}} \cup {{value} : value \in PropertyValues}] :
              S \in SUBSET PropertyNames}

\* the orders in which a dictionary with these keys may be iterated
iteritems(keys) ==
    {order \in [1..Cardinality(keys) -> keys] :
        \A i, j \in DOMAIN order : i # j => order[i] # order[j]}

\* getprop(prop, default)
getprop(d, prop, default) == IF prop \in DOMAIN d THEN {d[prop]} ELSE default

\* getattr(self, prop, None) of a CF property: the getter raises
\* AttributeError when the property is not set
getattr(d, prop) == IF prop \in DOMAIN d THEN {d[prop]} ELSE {}

\* setprop
setprop(d, prop, value) == setitem(d, prop, value)

\* delprop
delprop(d, prop) ==
    IF prop \in DOMAIN d
    THEN [err |-> "none", d |-> delitem(d, prop)]
    ELSE [err |-> "AttributeError", d |-> d]

\* properties(props), the loop over props.iteritems() from the i-th item on
RECURSIVE properties_loop(_, _, _, _)
properties_loop(d, props, order, i) ==
    IF i > Len(order) THEN [err |-> "none", d |-> d]
    ELSE LET prop == order[i]
             value == props[prop]
             r == delprop(d, prop)
         IN IF value = {}
            THEN IF r.err # "none" THEN r
                 ELSE properties_loop(r.d, props, order, i + 1)
            ELSE properties_loop(setprop(d, prop, CHOOSE v \in value : TRUE),
                                 props, order, i + 1)

\* fill_value(default), for a default other than 'netCDF'
fill_value(fill, default) == IF fill = {} THEN default ELSE fill

\* no call of fill_value() since the last change
NoFillValue == [called |-> FALSE, default |-> {}, out |-> {}]

\* Variable()
InitVariable ==
    /\ file = NoFile
    /\ ReadIdle
    /\ ArrayIdle
    /\ ObjectsIdle

\* Variable(properties=props) or Variable(properties=props, source=self):
\* the new variable takes the place of the old one
Construct(props, source) ==
    /\ LET p == IF source
                THEN [k \in DOMAIN properties \cup DOMAIN props |->
                         IF k \in DOMAIN props THEN props[k] ELSE {properties[k]}]
                ELSE props
       IN \E order \in iteritems(DOMAIN p) :
             LET r == properties_loop(<<>>, p, order, 1)
             IN IF r.err # "none"
                THEN /\ exception' = r.err
                     /\ UNCHANGED <<properties, _fill_value>>
                ELSE /\ exception' = "none"
                     /\ properties' = r.d
                     /\ _fill_value' = {}
    /\ fillval' = NoFillValue
    /\ UNCHANGED <<arrvars, readvars, heap, self_dict, new_dict, copied, changes>>

\* f.missing_value = value
SetMissingValue(value) ==
    /\ properties' = setitem(properties, "missing_value", value)
    /\ _fill_value' = {value}
    /\ exception' = "none"
    /\ fillval' = NoFillValue
    /\ UNCHANGED <<arrvars, readvars, heap, self_dict, new_dict, copied, changes>>

\* del f.missing_value
DelMissingValue ==
    /\ properties' = delitem(properties, "missing_value")
    /\ _fill_value' = getattr(properties', "_FillValue")
    /\ exception' = "none"
    /\ fillval' = NoFillValue
    /\ UNCHANGED <<arrvars, readvars, heap, self_dict, new_dict, copied, changes>>

\* f._FillValue = value
SetFillValue(value) ==
    /\ properties' = setitem(properties, "_FillValue", value)
    /\ _fill_value' = getprop(properties', "missing_value", {value})
    /\ exception' = "none"
    /\ fillval' = NoFillValue
    /\ UNCHANGED <<arrvars, readvars, heap, self_dict, new_dict, copied, changes>>

\* del f._FillValue
DelFillValue ==
    /\ properties' = delitem(properties, "_FillValue")
    /\ _fill_value' = getattr(properties', "missing_value")
    /\ exception' = "none"
    /\ fillval' = NoFillValue
    /\ UNCHANGED <<arrvars, readvars, heap, self_dict, new_dict, copied, changes>>

\* f.setprop(prop, value)
SetProp(prop, value) ==
    /\ properties' = setprop(properties, prop, value)
    /\ exception' = "none"
    /\ fillval' = NoFillValue
    /\ UNCHANGED <<arrvars, readvars, _fill_value, heap, self_dict, new_dict,
                   copied, changes>>

\* f.delprop(prop)
DelProp(prop) ==
    /\ properties' = delprop(properties, prop).d
    /\ exception' = delprop(properties, prop).err
    /\ fillval' = NoFillValue
    /\ UNCHANGED <<arrvars, readvars, _fill_value, heap, self_dict, new_dict,
                   copied, changes>>

\* f.properties(props, clear=clear)
Properties(props, clear) ==
    /\ IF clear
       THEN /\ properties' = <<>>
            /\ exception' = "none"
       ELSE \E order \in iteritems(DOMAIN props) :
               LET r == properties_loop(properties, props, order, 1)
               IN /\ properties' = r.d
                  /\ exception' = r.err
    /\ fillval' = NoFillValue
    /\ UNCHANGED <<arrvars, readvars, _fill_value, heap, self_dict, new_dict,
                   copied, changes>>

\* f.fill_value(default)
FillValue(default) ==
    /\ fillval' = [called |-> TRUE, default |-> default,
                   out |-> fill_value(_fill_value, default)]
    /\ exception' = "none"
    /\ UNCHANGED <<arrvars, readvars, properties, _fill_value, heap, self_dict,
                   new_dict, copied, changes>>

NextVariable ==
    \/ \E props \in PropertyDicts, source \in BOOLEAN : Construct(props, source)
    \/ \E value \in PropertyValues : SetMissingValue(value)
    \/ DelMissingValue
    \/ \E value \in PropertyValues : SetFillValue(value)
    \/ DelFillValue
    \/ \E prop \in PropertyNames, value \in PropertyValues : SetProp(prop, value)
    \/ \E prop \in PropertyNames : DelProp(prop)
    \/ \E props \in PropertyDicts, clear \in BOOLEAN : Properties(props, clear)
    \/ \E default \in Defaults : FillValue(default)

SpecVariable == InitVariable /\ [][NextVariable]_vars

----------------------------------------------------------------------------
(***************************************************************************)
(* Array (cfdm/structure/data/abstract/array.py): __init__, copy and       *)
(* __deepcopy__.  An attribute value is a number, or the identity of a     *)
(* list kept in the heap; two dictionaries that hold the same identity     *)
(* share the list.                                                         *)
(***************************************************************************)
AttributeNames == {"array", "ndim"}

\* the lists tried as attribute values
Lists == UNION {[1..n -> PropertyValues] : n \in 1..MaxList}

number(value) == [kind |-> "number", v |-> value]

\* the list with this identity
identity(address) == [kind |-> "list", v |-> address]

\* a list not yet in the heap is given the next identity
allocate(h) == Len(h) + 1

\* what the attributes of an object with this __dict__ read as
Attributes(d, h) ==
    [name \in DOMAIN d |->
        IF d[name].kind = "list" THEN [kind |-> "list", v |-> h[d[name].v]]
        ELSE d[name]]

\* self.__dict__.copy(): a new dictionary with the same values, the lists
\* being the same objects
dict_copy(d, h) == [d |-> d, h |-> h]

\* a = Array(array=<list>, ndim=<number>)
InitCopy ==
    /\ file = NoFile
    /\ ReadIdle
    /\ ArrayIdle
    /\ properties = <<>>
    /\ _fill_value = {}
    /\ fillval = NoFillValue
    /\ exception = "none"
    /\ \E list \in Lists, n \in PropertyValues :
          /\ heap = <<list>>
          /\ self_dict = ("array" :> identity(1) @@ "ndim" :> number(n))
    /\ new_dict = <<>>
    /\ copied = FALSE
    /\ changes = 0

\* b = a.copy()
Copy ==
    /\ ~copied
    /\ new_dict' = dict_copy(self_dict, heap).d
    /\ heap' = dict_copy(self_dict, heap).h
    /\ copied' = TRUE
    /\ UNCHANGED <<arrvars, readvars, properties, _fill_value, fillval,
                   exception, self_dict, changes>>

\* b = copy.deepcopy(a): __deepcopy__ returns self.copy()
DeepCopy ==
    /\ ~copied
    /\ new_dict' = dict_copy(self_dict, heap).d
    /\ heap' = dict_copy(self_dict, heap).h
    /\ copied' = TRUE
    /\ UNCHANGED <<arrvars, readvars, properties, _fill_value, fillval,
                   exception, self_dict, changes>>

\* b.<name> = value, a number
SetNumber(name, value) ==
    /\ copied
    /\ changes < MaxChanges
    /\ changes' = changes + 1
    /\ new_dict' = setitem(new_dict, name, number(value))
    /\ UNCHANGED <<arrvars, readvars, properties, _fill_value, fillval,
                   exception, heap, self_dict, copied>>

\* b.<name> = list, a new list
SetList(name, list) ==
    /\ copied
    /\ changes < MaxChanges
    /\ changes' = changes + 1
    /\ heap' = Append(heap, list)
    /\ new_dict' = setitem(new_dict, name, identity(allocate(heap)))
    /\ UNCHANGED <<arrvars, readvars, properties, _fill_value, fillval,
                   exception, self_dict, copied>>

\* b.<name>[p] = value: the list b holds is changed in place
SetElement(name, p, value) ==
    /\ copied
    /\ changes < MaxChanges
    /\ name \in DOMAIN new_dict
    /\ new_dict[name].kind = "list"
    /\ p + 1 \in DOMAIN heap[new_dict[name].v]
    /\ changes' = changes + 1
    /\ heap' = [heap EXCEPT ![new_dict[name].v][p + 1] = value]
    /\ UNCHANGED <<arrvars, readvars, properties, _fill_value, fillval,
                   exception, self_dict, new_dict, copied>>

\* del b.<name>
DelAttribute(name) ==
    /\ copied
    /\ changes < MaxChanges
    /\ name \in DOMAIN new_dict
    /\ changes' = changes + 1
    /\ new_dict' = delitem(new_dict, name)
    /\ UNCHANGED <<arrvars, readvars, properties, _fill_value, fillval,
                   exception, heap, self_dict, copied>>

NextCopy ==
    \/ Copy
    \/ DeepCopy
    \/ \E name \in AttributeNames, value \in PropertyValues : SetNumber(name, value)
    \/ \E name \in AttributeNames, list \in Lists : SetList(name, list)
    \/ \E name \in AttributeNames, p \in 0..(MaxList - 1), value \in PropertyValues :
          SetElement(name, p, value)
    \/ \E name \in AttributeNames : DelAttribute(name)

SpecCopy == InitCopy /\ [][NextCopy]_vars

----------------------------------------------------------------------------
(***************************************************************************)
(* Properties of the array specification.                                  *)
(***************************************************************************)
IsType(t) == cls = "GatheredArray" /\ compression.type = t

\* the index expressions that have been evaluated and returned an array
Done == {indices \in IndexExprs : returned[indices].err = "none"}

\* the index expressions that have been evaluated
Tried == {indices \in IndexExprs : returned[indices].err # "nocall"}

\* the rows of the uncompressed array an index expression selects
Rows(indices) == IF indices = "Ellipsis" THEN 0..(shape[1] - 1) ELSE {0}

\* the flat index a multi-index stands for in row-major order
RowMajor(sh, t) ==
    sum([j \in 1..Len(sh) |-> t[j] * reduce_mul(SubSeq(sh, j + 1, Len(sh)), 1)])

\* the 0-based positions of a that hold i
Positions(a, i) == {p \in 0..(Len(a) - 1) : a[p + 1] = i}

\* how many positions before p hold the same value as position p
Rank(a, p) == Cardinality({q \in 0..(p - 1) : a[q + 1] = a[p + 1]})

\* every stored index of the list variable addresses an element
ValidList == \A p \in DOMAIN compression.indices :
                 compression.indices[p] \in 0..(size - 1)

\* the sizes of the collapsed axes of a gathered array
CollapsedSizes == SubSeq(shape, LeadAxes + 1, Len(shape))

\* the multi-index computed for the stored index b
Computed(b) ==
    xxx_of(shape, compressed_axes(compression.axis, ndim, compression.array_ndim), b)

C4_IndexedContiguousPlacement ==
    IsType("DSG_indexed_contiguous") =>
        \A indices \in Tried :
            /\ returned[indices].err = "none"
            /\ \A i \in Rows(indices) :
                  \A q \in Positions(compression.profile_indices, i) :
                     \A e \in 0..(compression.elements_per_profile[q + 1] - 1) :
                        LET j == Rank(compression.profile_indices, q)
                            offset == sum(SubSeq(compression.elements_per_profile, 1, q))
                        IN /\ <<i, j, e>> \in DOMAIN returned[indices].data
                           /\ returned[indices].data[<<i, j, e>>]
                                  = array[offset + e + 1]

\* a list variable as the conventions define it: every stored index
\* addresses an element, and no two samples share one
WellFormed ==
    IsType("gathered") =>
        /\ ValidList
        /\ \A p, q \in DOMAIN compression.indices :
              compression.indices[p] = compression.indices[q] => p = q

\* C5: round trip, each of the four schemes: after decompressing a
\* well-formed compressed array every source element is at exactly one
\* position of the uncompressed array and every other position is masked.
C5_RoundTrip ==
    (cls = "GatheredArray" /\ WellFormed /\ "Ellipsis" \in Tried) =>
        LET r == returned["Ellipsis"]
        IN /\ r.err = "none"
           /\ \A p \in DOMAIN array :
                 Cardinality({t \in DOMAIN r.data : r.data[t] = array[p]}) = 1
           /\ \A t \in DOMAIN r.data :
                 r.data[t] = MASKED \/ \E p \in DOMAIN array : r.data[t] = array[p]

\* C6: for every compressed array the reader builds, under any of the four
\* schemes, the reported size is the product of the entries of the reported
\* shape (the number of multi-indices of that shape) and the reported ndim
\* is the length of the shape.
C6_SizeIsProduct ==
    cls = "GatheredArray" =>
        /\ size = Cardinality(Coords(shape))
        /\ ndim = Len(shape)

\* C6 witness: the indexed contiguous example, built with shape (2, 2, 3)
C6_Witness ==
    /\ IsType("DSG_indexed_contiguous")
    /\ shape = <<2, 2, 3>>
    /\ size = 12
    /\ ndim = 3

----------------------------------------------------------------------------
(***************************************************************************)
(* Properties of the read specification.                                   *)
(***************************************************************************)
\* the variable is a list variable whose compress attribute is text
TextListVariable(ncvar) ==
    /\ file.variables[ncvar].dimensions = <<ncvar>>
    /\ \E value \in get(file.variables[ncvar].attributes, "compress") :
          value.kind = "str"

\* the words of the compress attribute of a list variable
Named(ncvar) ==
    LET value == CHOOSE v \in get(file.variables[ncvar].attributes, "compress") : TRUE
    IN {split(value.chars)[p] : p \in DOMAIN split(value.chars)}

\* a list variable whose compress attribute names a dimension the file
\* does not have
Rejected(ncvar) ==
    /\ TextListVariable(ncvar)
    /\ Named(ncvar) \ DOMAIN file.dimensions # {}

\* the scan of the list variables is over
Scanned == pc \in {"create_fields", "done"}

\* C9: a list variable whose compress attribute names a dimension absent
\* from the file: the step of the scan that visits it leaves the compression
\* map as it was and raises nothing, and the loop goes on with the variables
\* it had left; no gathered descriptor is ever recorded for that variable's
\* dimension.
C9_RejectedListVariable ==
    /\ [](\A ncvar \in DOMAIN file.variables :
             Rejected(ncvar) => ncvar \notin DOMAIN g_compression)
    /\ [][\A ncvar \in todo \ todo' :
             (pc = "list_variables" /\ Rejected(ncvar)) =>
                 /\ g_compression' = g_compression
                 /\ raised' = "none"
                 /\ pc' = "list_variables"
                 /\ todo' = todo \ {ncvar}]_vars

\* C9 witness: the session is over without an error; s named an absent
\* dimension and has no descriptor, while the list variable x, scanned in
\* the same loop, has one
C9_Witness ==
    /\ pc = "done"
    /\ raised = "none"
    /\ <<"s">> \in DOMAIN file.variables
    /\ Rejected(<<"s">>)
    /\ <<"s">> \notin DOMAIN g_compression
    /\ <<"x">> \in DOMAIN g_compression

\* C10: a variable whose compress attribute names an absent dimension is not
\* in the set of variables excluded from field creation once the scan is
\* over, and a field has been created for it when read returns.
C10_RejectedBecomesField ==
    \A ncvar \in DOMAIN file.variables :
        Rejected(ncvar) =>
            /\ Scanned => ncvar \notin do_not_create_field
            /\ pc = "done" => ncvar \in DOMAIN fields

\* the variable has the attribute, and its value names no dimension of
\* the file
FailsNaming(ncvar, attribute) ==
    \E value \in get(file.variables[ncvar].attributes, attribute) :
        ~check_dimension(DOMAIN file.dimensions, value)

\* the variable carries an attribute that fails its dimension-existence
\* check in the scan of this file
FailsCheck(ncvar, attribute) ==
    \/ attribute = "compress" /\ Rejected(ncvar)
    \/ /\ attribute \in {"sample_dimension", "instance_dimension"}
       /\ get(file.global_attributes, "featureType") # {}
       /\ FailsNaming(ncvar, attribute)

\* the diagnostics on record for a variable: in the report of the read
\* variables and in the reports handed to the fields
Diagnostics(ncvar) ==
    (IF ncvar \in DOMAIN read_report
     THEN {read_report[ncvar][p] : p \in DOMAIN read_report[ncvar]} ELSE {})
    \cup UNION {LET report == fields[f].read_report
                IN IF ncvar \in DOMAIN report
                   THEN {report[ncvar][p] : p \in DOMAIN report[ncvar]} ELSE {} :
                f \in DOMAIN fields}

\* C11: once the scan is over, every variable whose compress,
\* sample_dimension or instance_dimension attribute failed its
\* dimension-existence check has a diagnostic on record that names the
\* attribute.
C11_DiagnosticRecorded ==
    Scanned =>
        \A ncvar \in DOMAIN file.variables :
            \A attribute \in {"compress", "sample_dimension", "instance_dimension"} :
                FailsCheck(ncvar, attribute) =>
                    \E message \in Diagnostics(ncvar) : message.attribute = attribute

\* the variable is a count (sample_dimension) or index (instance_dimension)
\* variable that passes its check in the scan of this file
PassesNaming(ncvar, attribute) ==
    /\ get(file.global_attributes, "featureType") # {}
    /\ \E value \in get(file.variables[ncvar].attributes, attribute) :
          check_dimension(DOMAIN file.dimensions, value)

\* the dimension an attribute of the variable names
NamedBy(ncvar, attribute) ==
    (CHOOSE value \in get(file.variables[ncvar].attributes, attribute) : TRUE).chars

\* the largest element of a non-empty sequence of numbers
Largest(s) == CHOOSE m \in {s[p] : p \in DOMAIN s} : \A p \in DOMAIN s : s[p] <= m

\* C12: the step that composes a contiguous and an indexed descriptor: the
\* entry of the sample dimension then holds an indexed-contiguous descriptor
\* and no contiguous one; its instance size is the indexed descriptor's, its
\* trailing sizes are the largest number of profiles per instance and the
\* largest number of elements per profile, its implied dimensions are
\* (instance dimension, indexed element dimension, contiguous element
\* dimension) and its profile indices are the indexed descriptor's.
C12_Composition ==
    [][(pc = "index_variables" /\ pc' = "create_fields"
           /\ read_sample_dimension # {} /\ read_instance_dimension # {}) =>
          LET sample == CHOOSE ncdim \in read_sample_dimension : TRUE
              contiguous == g_compression[sample]["DSG_contiguous"]
              indexed == g_compression[contiguous.profile_ncdimension]["DSG_indexed"]
              entry == g_compression'[sample]
              composed == entry["DSG_indexed_contiguous"]
          IN /\ "DSG_indexed_contiguous" \in DOMAIN entry
             /\ "DSG_contiguous" \notin DOMAIN entry
             /\ composed.c.instance_dimension_size = indexed.c.instance_dimension_size
             /\ composed.c.element_dimension_1_size
                    = Largest(indexed.c.elements_per_instance)
             /\ composed.c.element_dimension_2_size
                    = Largest(contiguous.c.elements_per_instance)
             /\ composed.implied_ncdimensions
                    = <<indexed.implied_ncdimensions[1],
                        indexed.element_dimension,
                        contiguous.element_dimension>>
             /\ composed.c.profile_indices = indexed.c.instances
             /\ composed.c.profiles_per_instance = indexed.c.elements_per_instance
             /\ composed.c.elements_per_profile = contiguous.c.elements_per_instance]_vars

\* C12 witness: the counts (2, 3, 1) of the profiles of instances (0, 1, 0)
\* have been composed: two instances, at most two profiles each, at most
\* three elements per profile
C12_Witness ==
    /\ pc = "done"
    /\ <<"obs">> \in DOMAIN g_compression
    /\ DOMAIN g_compression[<<"obs">>] = {"DSG_indexed_contiguous"}
    /\ LET composed == g_compression[<<"obs">>]["DSG_indexed_contiguous"]
       IN /\ composed.c.elements_per_profile = <<2, 3, 1>>
          /\ composed.c.profile_indices = <<0, 1, 0>>
          /\ composed.c.instance_dimension_size = 2
          /\ composed.c.element_dimension_1_size = 2
          /\ composed.c.element_dimension_2_size = 3
          /\ composed.implied_ncdimensions[1] = <<"station">>

\* the file has a valid count variable and a valid index variable, and the
\* index variable does not span the dimension of the count variable
Mismatch(count, index) ==
    /\ PassesNaming(count, "sample_dimension")
    /\ PassesNaming(index, "instance_dimension")
    /\ file.variables[count].dimensions[1] # file.variables[index].dimensions[1]

\* C13: with a valid count variable and a valid index variable over another
\* dimension than the count variable's, the read raises nothing, and once
\* the scan is over both standalone descriptors are in the compression map.
C13_MismatchSkipsComposition ==
    \A count, index \in DOMAIN file.variables :
        Mismatch(count, index) =>
            /\ raised = "none"
            /\ Scanned =>
                  LET sample == NamedBy(count, "sample_dimension")
                      indexed == file.variables[index].dimensions[1]
                  IN /\ sample \in DOMAIN g_compression
                     /\ "DSG_contiguous" \in DOMAIN g_compression[sample]
                     /\ indexed \in DOMAIN g_compression
                     /\ "DSG_indexed" \in DOMAIN g_compression[indexed]

\* the positions of the variable's dimensions that are compressed
CompressedPositions(ncvar) ==
    {p \in DOMAIN file.variables[ncvar].dimensions :
        file.variables[ncvar].dimensions[p] \in DOMAIN g_compression}

\* the implied dimensions of an entry of the compression map that holds one
\* descriptor
ImpliedBy(entry) == entry[CHOOSE type \in DOMAIN entry : TRUE].implied_ncdimensions

\* C14: a field made for a variable with one compressed sample dimension,
\* under any scheme, spans the variable's own dimensions with the sample
\* dimension replaced in place by the descriptor's implied dimensions: the
\* other dimensions are kept, in their order.
C14_ImpliedDimensions ==
    \A ncvar \in DOMAIN fields :
        LET dims == file.variables[ncvar].dimensions
        IN \A i \in CompressedPositions(ncvar) :
              (/\ CompressedPositions(ncvar) = {i}
               /\ Cardinality(DOMAIN g_compression[dims[i]]) = 1) =>
                  fields[ncvar].ncdimensions
                      = SubSeq(dims, 1, i - 1) \o ImpliedBy(g_compression[dims[i]])
                            \o SubSeq(dims, i + 1, Len(dims))

\* the scan of this file uses the variable as a list, count or index
\* variable: its attribute passes the check and a descriptor is made from it
UsedByScan(ncvar) ==
    \/ TextListVariable(ncvar) /\ ~Rejected(ncvar)
    \/ PassesNaming(ncvar, "sample_dimension")
    \/ PassesNaming(ncvar, "instance_dimension")

\* C15: a variable the scan used as a list, count or index variable is in
\* the set of variables excluded from field creation once the scan is over,
\* no field is created for it and read does not return one; the step of the
\* scan that records a descriptor excludes the variable it visits.
C15_UsedVariablesExcluded ==
    /\ [](\A ncvar \in DOMAIN file.variables :
             UsedByScan(ncvar) =>
                 /\ Scanned => ncvar \in do_not_create_field
                 /\ ncvar \notin DOMAIN fields
                 /\ ncvar \notin fields_in_file)
    /\ [][\A ncvar \in todo \ todo' :
             (/\ pc \in {"list_variables", "count_variables", "index_variables"}
              /\ g_compression' # g_compression) =>
                 ncvar \in do_not_create_field']_vars

\* C15 witness: read has returned the field of d alone from a file whose
\* count variable c and index variable i both made a descriptor
C15_Witness ==
    /\ pc = "done"
    /\ <<"c">> \in DOMAIN file.variables
    /\ <<"i">> \in DOMAIN file.variables
    /\ PassesNaming(<<"c">>, "sample_dimension")
    /\ PassesNaming(<<"i">>, "instance_dimension")
    /\ {<<"c">>, <<"i">>} \subseteq do_not_create_field
    /\ fields_in_file = {<<"d">>}

\* C16: a read session that has finished, by returning or by raising, has
\* closed the handle it opened on the file.
C16_HandleClosed == pc \in {"done", "raised"} => nc = "closed"

\* C17: read of a dataset with the one data variable d, whose other
\* variables are d's auxiliary coordinate and the variables of d's geometry,
\* returns one field, the field of d.
C17_OneField ==
    (pc = "done" /\ file \in GeometryFiles) => fields_in_file = {<<"d">>}

\* what fill_value(default) is to return for these properties
Expected(d, default) ==
    IF "missing_value" \in DOMAIN d THEN {d["missing_value"]}
    ELSE IF "_FillValue" \in DOMAIN d THEN {d["_FillValue"]}
    ELSE default

\* C18: whatever operations set and deleted the properties, fill_value()
\* returns the missing_value property if it is set, else the _FillValue
\* property if it is set, else the default it was given.
C18_FillValue ==
    fillval.called => fillval.out = Expected(properties, fillval.default)

\* C19: the copy reads as the original when it is made, and no change
\* made through the copy afterwards, in place or not, changes what any
\* attribute of the original reads as.
C19_DeepCopy ==
    [][/\ (~copied /\ copied') =>
              Attributes(new_dict', heap') = Attributes(self_dict, heap)
       /\ copied => Attributes(self_dict', heap') = Attributes(self_dict, heap)]_vars

\* C20: gathered decompression with one collapsed axis: the coordinate
\* computed for a stored index b in [0, size of the axis) is b itself, and a
\* call over a list of such indices places every sample at the coordinate
\* its stored index names.
C20_SingleAxis ==
    (IsType("gathered") /\ Len(CollapsedSizes) = 1) =>
        /\ \A b \in 0..(size - 1) : Computed(b) = <<b>>
        /\ ValidList =>
              \A indices \in Tried :
                 /\ returned[indices].err = "none"
                 /\ \A p \in DOMAIN compression.indices :
                       returned[indices].placed[p] = <<compression.indices[p]>>

\* the element counts of the profiles of instance i, in encounter order
CountsOf(i) ==
    LET q == where(compression.profile_indices, i)
    IN [j \in 1..Len(q) |-> compression.elements_per_profile[q[j] + 1]]

\* C21: ragged indexed-contiguous decompression: the slice of the sample
\* dimension read for the j-th profile of instance i is computed without an
\* error; it starts at the sum of the element counts of the profiles of
\* instance i that precede it and stops that profile's own count later.
C21_SourceRange ==
    IsType("DSG_indexed_contiguous") =>
        \A i \in 0..(shape[1] - 1) :
            \A j \in 0..(Len(CountsOf(i)) - 1) :
                LET r == sample_indices(compression, i, j)
                    start == sum(SubSeq(CountsOf(i), 1, j))
                IN /\ r.err = "none"
                   /\ r.start = start
                   /\ r.stop = start + CountsOf(i)[j + 1]

\* a contiguous descriptor and an indexed descriptor on its profile
\* dimension are both in the compression map
Composable(sample) ==
    /\ sample \in DOMAIN g_compression
    /\ "DSG_contiguous" \in DOMAIN g_compression[sample]
    /\ LET profile == g_compression[sample]["DSG_contiguous"].profile_ncdimension
       IN /\ profile \in DOMAIN g_compression
          /\ "DSG_indexed" \in DOMAIN g_compression[profile]

\* the dimensions that have an indexed-contiguous descriptor
Composed(g) == {ncdim \in DOMAIN g : "DSG_indexed_contiguous" \in DOMAIN g[ncdim]}

\* C22: a composed descriptor is recorded only by the step that follows the
\* two scanning loops, and once the scan is over no contiguous descriptor
\* is left beside an indexed descriptor on its profile dimension: the two
\* have been composed, whatever the order of the visits and whatever other
\* count or index variable failed its check.
C22_CompositionTiming ==
    /\ [][Composed(g_compression') \ Composed(g_compression) # {} =>
             (pc = "index_variables" /\ todo = {})]_vars
    /\ [](Scanned => \A sample \in DOMAIN file.dimensions : ~Composable(sample))

\* the variable has been visited by the loop that scans for its attribute,
\* which passed its check
Recorded(ncvar, attribute) ==
    PassesNaming(ncvar, attribute) /\ ncvar \in do_not_create_field

\* the largest number of positions of a that hold the same value
MostFrequent(a) ==
    LET occurrences(v) == Cardinality({p \in DOMAIN a : a[p] = v})
    IN CHOOSE m \in 1..Len(a) :
          /\ \E p \in DOMAIN a : occurrences(a[p]) = m
          /\ \A p \in DOMAIN a : occurrences(a[p]) <= m

\* C23: the contiguous descriptor made from a count variable has as many
\* instances as there are counts and an element size of the largest count;
\* the indexed descriptor made from an index variable has the size of the
\* dimension its attribute names as instance size and the largest number of
\* samples of one instance as element size; the made-up element dimension
\* of either is recorded with that element size.
C23_DescriptorSizes ==
    \A ncvar \in DOMAIN file.variables :
        /\ Recorded(ncvar, "sample_dimension") =>
              LET sample == NamedBy(ncvar, "sample_dimension")
                  counts == file.variables[ncvar].data
                  entry == g_compression[sample]
                  contiguous == entry["DSG_contiguous"]
              IN /\ sample \in DOMAIN g_compression
                 /\ pc \in {"count_variables", "index_variables"} =>
                        "DSG_contiguous" \in DOMAIN entry
                 /\ "DSG_contiguous" \in DOMAIN entry =>
                       /\ contiguous.c.instance_dimension_size = Len(counts)
                       /\ contiguous.c.element_dimension_size = Largest(counts)
                       /\ contiguous.element_dimension \in DOMAIN new_dimensions
                       /\ new_dimensions[contiguous.element_dimension]
                              = Largest(counts)
        /\ Recorded(ncvar, "instance_dimension") =>
              LET sample == file.variables[ncvar].dimensions[1]
                  index == file.variables[ncvar].data
                  entry == g_compression[sample]
                  indexed == entry["DSG_indexed"]
              IN /\ sample \in DOMAIN g_compression
                 /\ "DSG_indexed" \in DOMAIN entry
                 /\ indexed.c.instance_dimension_size
                        = file.dimensions[NamedBy(ncvar, "instance_dimension")]
                 /\ indexed.c.element_dimension_size = MostFrequent(index)
                 /\ indexed.element_dimension \in DOMAIN new_dimensions
                 /\ new_dimensions[indexed.element_dimension] = MostFrequent(index)

\* C23 witness: the two scanning loops are over; counts (1, 2) and the
\* index variable (1, 1), which names one of the two stations, have both
\* been recorded: two instances of at most two elements each
C23_Witness ==
    /\ pc = "index_variables"
    /\ todo = {}
    /\ <<"c">> \in DOMAIN file.variables
    /\ Recorded(<<"c">>, "sample_dimension")
    /\ Recorded(<<"i">>, "instance_dimension")
    /\ file.variables[<<"c">>].data = <<1, 2>>
    /\ file.variables[<<"i">>].data = <<1, 1>>
    /\ file.variables[<<"i">>].dimensions = << <<"profile">> >>
    /\ g_compression[<<"obs">>]["DSG_contiguous"].c.instance_dimension_size = 2
    /\ g_compression[<<"obs">>]["DSG_contiguous"].c.element_dimension_size = 2
    /\ g_compression[<<"profile">>]["DSG_indexed"].c.instance_dimension_size = 2
    /\ g_compression[<<"profile">>]["DSG_indexed"].c.element_dimension_size = 2

\* C24: the indexed descriptor made from an index variable records, for
\* every sample position, the instance id the index variable holds there,
\* also when some id below the instance size never occurs.
C24_OwningInstance ==
    \A ncvar \in DOMAIN file.variables :
        Recorded(ncvar, "instance_dimension") =>
            LET sample == file.variables[ncvar].dimensions[1]
            IN /\ sample \in DOMAIN g_compression
               /\ "DSG_indexed" \in DOMAIN g_compression[sample]
               /\ g_compression[sample]["DSG_indexed"].c.instances
                      = file.variables[ncvar].data

\* base_n
Suffixed(base, n) == base \o <<"_", digits[n + 1]>>

\* the step has made up one dimension name: it is the name of no dimension of
\* the file and was not made up before; it is the base when that is free,
\* else base_n for the smallest n >= 1 that is free
MadeUp(base) ==
    LET taken == DOMAIN file.dimensions \cup DOMAIN new_dimensions
    IN \E name \in DOMAIN new_dimensions' :
          /\ DOMAIN new_dimensions' = DOMAIN new_dimensions \cup {name}
          /\ name \notin taken
          /\ \A ncdim \in DOMAIN new_dimensions :
                new_dimensions'[ncdim] = new_dimensions[ncdim]
          /\ base \notin taken => name = base
          /\ base \in taken =>
                \E n \in 1..9 :
                   /\ name = Suffixed(base, n)
                   /\ \A m \in 1..(n - 1) : Suffixed(base, m) \in taken

\* C25: every step of the scan that records a contiguous or an indexed
\* descriptor makes up an element dimension name that no dimension of the
\* file has and that was not made up earlier in the read: the feature type's
\* base name when it is free, else base_n for the smallest free n >= 1.
C25_MadeUpNames ==
    [][\A ncvar \in todo \ todo' :
          /\ (pc = "count_variables" /\ PassesNaming(ncvar, "sample_dimension")) =>
                MadeUp(contiguous_base(g_featureType))
          /\ (pc = "index_variables" /\ PassesNaming(ncvar, "instance_dimension")) =>
                MadeUp(indexed_base(g_featureType))]_vars

\* C25 witness: in a file of profiles, which has a dimension named profile,
\* the count variable led to profile_1 and then the index variable to
\* profile_2
C25_Witness ==
    /\ pc = "done"
    /\ DOMAIN new_dimensions = {<<"profile", "_", "1">>, <<"profile", "_", "2">>}
    /\ g_compression[<<"obs">>]["DSG_indexed_contiguous"].implied_ncdimensions
           = << <<"station">>, <<"profile", "_", "2">>, <<"profile", "_", "1">> >>

\* C26: once the scan has finished, no step of field construction changes
\* the compression map: creating a field, with its data and the data of its
\* coordinates, reads the descriptors and leaves them as they are.
C26_MapFrozen ==
    [][pc = "create_fields" => g_compression' = g_compression]_vars

\* C26 witness: a field was created whose data is a gathered array that was
\* given the sample axis 1, and the descriptor in the map has no sample axis
C26_Witness ==
    /\ pc = "done"
    /\ <<"s">> \in DOMAIN g_compression
    /\ "sample_axis" \notin DOMAIN g_compression[<<"s">>]["gathered"]
    /\ \E ncvar \in DOMAIN fields :
          /\ fields[ncvar].data.compression_type = "gathered"
          /\ fields[ncvar].data.compression_parameters.sample_axis = 1

\* the first of the variable's dimensions that has a descriptor, which is
\* the one the implied dimensions are taken from
FirstCompressed(ncvar) ==
    LET dims == file.variables[ncvar].dimensions
    IN dims[CHOOSE p \in DOMAIN dims :
               /\ dims[p] \in DOMAIN g_compression
               /\ \A q \in 1..(p - 1) : dims[q] \notin DOMAIN g_compression]

\* C27: for every field whose variable spans one or more compressed sample
\* dimensions, the compressed array that holds its data was built from the
\* descriptor of the dimension its implied dimensions were taken from, and
\* there are as many implied dimensions as the array has axes.
C27_SameDescriptor ==
    \A ncvar \in DOMAIN fields :
        fields[ncvar].data.compression_type # "none" =>
            /\ fields[ncvar].data.ncdim = FirstCompressed(ncvar)
            /\ Len(fields[ncvar].ncdimensions) = Len(fields[ncvar].data.shape)

\* C29: the data created for a list, count or index variable during the
\* scan is the array as it is on disk, never a compressed array that
\* uncompresses it, whatever descriptors the compression map holds by then.
C29_ReadRaw ==
    \A ncvar \in DOMAIN scan_data : scan_data[ncvar].compression_type = "none"

\* C30: in a read with uncompress=False no data is wrapped in a compressed
\* array, and every field has as many domain axes as its data, as it is on
\* disk, has dimensions, with the same sizes.
C30_OnDisk ==
    ~uncompress =>
        /\ \A ncvar \in DOMAIN scan_data :
              scan_data[ncvar].compression_type = "none"
        /\ \A ncvar \in DOMAIN fields :
              /\ fields[ncvar].data.compression_type = "none"
              /\ fields[ncvar].data.shape = ondisk_shape(ncvar)
              /\ fields[ncvar].data_axes = fields[ncvar].data.shape

\* C28: every read starts with an empty compression map, an empty map of
\* made-up dimensions, no reference counts and an empty set of excluded
\* variables, whatever the reads before it recorded, and no step of a read
\* changes the template of the read variables.
C28_NoLeak ==
    [][/\ reads' # reads =>
             /\ g_compression' = <<>>
             /\ new_dimensions' = <<>>
             /\ references' = <<>>
             /\ do_not_create_field' = {}
       /\ _read_vars' = _read_vars]_vars

\* C28 witness: the second read of a file has begun whose scan records a
\* contiguous descriptor and a made-up dimension in every read, so the first
\* read did, and the template is as the constructor made it
C28_Witness ==
    /\ reads = 2
    /\ pc = "list_variables"
    /\ todo = DOMAIN file.variables
    /\ file \in OtherCountFiles
    /\ g_compression = <<>>
    /\ new_dimensions = <<>>
    /\ _read_vars = initial_read_vars

=============================================================================
